---- MODULE Spec2Model ----
(***************************************************************************)
(* A model of the coordination core of lightkeeper: the ConnectionManager  *)
(* worker (connection_manager.rs), the HostManager worker                  *)
(* (host_manager.rs), the MonitorManager dispatcher (monitor_manager.rs)   *)
(* and the CommandHandler dispatcher (command_handler.rs).                 *)
(*                                                                         *)
(* Each worker iteration is one action: the ConnectionManager worker holds *)
(* the connector-table lock from the lookup to the end of the response     *)
(* handler, the HostManager worker holds the host-table lock for a whole   *)
(* update, and both channels are FIFO, so a send that happens while an     *)
(* iteration runs is ordered as if it happened just before that iteration. *)
(*                                                                         *)
(* Option<T> is a sequence of length 0 (None) or 1 (Some).                 *)
(***************************************************************************)
EXTENDS Integers, Sequences, FiniteSets, Bags, TLC

VARIABLES
    connectors,     \* ConnectionManager.connectors: host name -> spec id -> Option<connector>
    req_queue,      \* the ConnectorRequest channel
    cm_state,       \* ConnectionManager worker: "running", "exited", "panicked" (holding
                    \* the connector-table lock)
    hosts,          \* HostManager.hosts: host name -> Option<HostState>
    upd_queue,      \* the StateUpdateMessage channel
    hm_state,       \* HostManager worker: "running", "exited", "panicked" (holding the
                    \* host-table lock), "panicked_at_exit" (holding the observer-list lock)
    observers,      \* HostManager.observers: sequence of observer channels
    monitors,       \* MonitorManager.monitors: host name -> set of monitor ids
    mm_counter,     \* MonitorManager.invocation_id_counter
    commands,       \* CommandHandler.commands: host name -> set of command ids
    ch_counter,     \* CommandHandler.invocation_id_counter
    orch_state,     \* the orchestrator thread: "running", "panicked" or "in_add_monitor"
    last_applied,   \* history: Option<record of the update the HostManager worker applied last>
    next_rid,       \* history: number of ConnectorRequests created so far
    last_served,    \* history: Option<record of the request the ConnectionManager worker dequeued last>
    dispatched,     \* history: Option<record of the last call of a dispatcher>
    calls,          \* history: number of refresh and execute calls made so far
    max_sent,       \* history: per dispatcher, the highest invocation id given out so far
    published       \* history: bag of the (host, module, invocation id) of the state
                    \* updates the dispatchers and their handlers sent

vars == <<connectors, req_queue, cm_state, hosts, upd_queue, hm_state, observers,
          monitors, mm_counter, commands, ch_counter, orch_state,
          last_applied, next_rid, last_served, dispatched, calls, max_sent, published>>

cm_vars == <<connectors, req_queue, cm_state>>
hm_vars == <<hosts, upd_queue, hm_state, observers>>
mm_vars == <<monitors, mm_counter>>
ch_vars == <<commands, ch_counter>>
disp_vars == <<dispatched, calls, max_sent>>

(***************************************************************************)
(* Bounds of the model.                                                    *)
(***************************************************************************)
MaxRequests == 2        \* requests the clients send in SpecCM
MaxMessages == 2        \* messages per request in SpecCM
MaxQueue == 1           \* state updates waiting in the channel in SpecHM
MaxObservers == 2       \* observers registered with the HostManager

HostNames == {"h1", "h2"}
ConnectorSpecs == {"ssh"}

Some(x) == <<x>>
None == << >>
IsSome(o) == Len(o) = 1
Unwrap(o) == o[1]


Range(s) == {s[i] : i \in 1..Len(s)}

(***************************************************************************)
(* Data points (module/monitoring DataPoint).                              *)
(***************************************************************************)
DataPoint_new(value, criticality) ==
    [value |-> value, criticality |-> criticality, invocation_id |-> 0, multivalue |-> << >>]

DataPoint_empty == DataPoint_new(<< >>, "Normal")
DataPoint_empty_and_critical == DataPoint_new(<< >>, "Critical")
DataPoint_no_data == DataPoint_new(<< >>, "NoData")

(***************************************************************************)
(* Connector responses.  A connector call has one of these outcomes; which *)
(* one is the connector's (the network's) choice.                          *)
(*   Command:  "ok", "crit", "garbage" -> Ok, return_code 0, that payload  *)
(*             "rc1"                   -> Ok, return_code 1                *)
(*             "err"                   -> Err                              *)
(*   Download: "ok" | "err" (download_file or create_file failed)          *)
(*   Upload:   "ok" | "err" (read_file, upload_file or remove_file failed) *)
(***************************************************************************)
CommandOutcomes == {"ok", "crit", "garbage", "rc1", "err"}
ProbeOutcomes == {"ok", "rc1", "err"}
TransferOutcomes == {"ok", "err"}

\* The payload of a response matters only to a module's processing hook.
OutcomesOf(request) ==
    IF request.request_type = "Command"
    THEN IF request.response_handler.kind = "probe" THEN ProbeOutcomes ELSE CommandOutcomes
    ELSE TransferOutcomes

\* Result<ResponseMessage, String>; `of` records the request message answered.
OkResponse(msg, message, return_code) ==
    [ok |-> TRUE, of |-> msg, message |-> message, return_code |-> return_code]
ErrResponse(msg, error) ==
    [ok |-> FALSE, of |-> msg, message |-> error, return_code |-> 0]

\* connector.send_message
send_message(msg, outcome) ==
    CASE outcome = "err" -> ErrResponse(msg, "err")
      [] outcome = "rc1" -> OkResponse(msg, "failed", 1)
      [] OTHER -> OkResponse(msg, outcome, 0)

\* RequestType::Download arm: download_file, then file_handler::create_file
download_message(msg, outcome) ==
    IF outcome = "ok" THEN OkResponse(msg, "local:" \o msg, 0)
    ELSE ErrResponse(msg, outcome)

\* RequestType::Upload arm: read_file, upload_file, remove_file when temporary
upload_message(msg, outcome) ==
    IF outcome = "ok" THEN OkResponse(msg, "", 0)
    ELSE ErrResponse(msg, outcome)

(***************************************************************************)
(* The message loop of the ConnectionManager worker.  It returns the       *)
(* response list, and as history the messages the connector was called for *)
(* (`attempted`) and what the connector answered to each (`raw`).          *)
(***************************************************************************)
LoopState(responses, attempted, raw) ==
    [responses |-> responses, attempted |-> attempted, raw |-> raw]

\* A loop that leaves after the message at position i, whatever follows.
MessageLoop_one_message(request_type, messages, outcomes, i, loop) ==
    IF i > Len(messages) THEN loop
    ELSE LET request_message == messages[i]
             response_result ==
                 IF request_type = "Command" THEN send_message(request_message, outcomes[i])
                 ELSE IF request_type = "Download"
                      THEN download_message(request_message, outcomes[i])
                      ELSE upload_message(request_message, outcomes[i])
         IN LoopState(Append(loop.responses, response_result),
                      Append(loop.attempted, request_message),
                      Append(loop.raw, response_result))

RECURSIVE MessageLoop(_, _, _, _, _)
MessageLoop(request_type, messages, outcomes, i, loop) ==
    IF i > Len(messages) THEN loop
    ELSE LET request_message == messages[i]
             attempted == Append(loop.attempted, request_message)
         IN
         IF request_type = "Command" THEN
            LET response_result == send_message(request_message, outcomes[i])
                raw == Append(loop.raw, response_result)
            IN IF response_result.ok /\ response_result.return_code # 0
               THEN \* break: leaves the loop before responses.push
                    LoopState(loop.responses, attempted, raw)
               ELSE MessageLoop(request_type, messages, outcomes, i + 1,
                                LoopState(Append(loop.responses, response_result), attempted, raw))
         ELSE IF request_type = "Download" THEN
            LET response_result == download_message(request_message, outcomes[i]) IN
            MessageLoop(request_type, messages, outcomes, i + 1,
                        LoopState(Append(loop.responses, response_result), attempted,
                                  Append(loop.raw, response_result)))
         ELSE
            LET response_result == upload_message(request_message, outcomes[i]) IN
            MessageLoop(request_type, messages, outcomes, i + 1,
                        LoopState(Append(loop.responses, response_result), attempted,
                                  Append(loop.raw, response_result)))

ProcessMessages(request_type, messages, outcomes) ==
    MessageLoop(request_type, messages, outcomes, 1, LoopState(<< >>, << >>, << >>))

(***************************************************************************)
(* Module configuration.  Monitors: "B" is a base monitor on the ssh       *)
(* connector, "E" an extension of "B", "I" an independent monitor (no      *)
(* connector), "_pinfo" the internal platform info provider.  Commands:    *)
(* "logs" implements process_response only, "multi" process_responses.     *)
(***************************************************************************)
MonitorIds == {"B", "E", "I"}
PlatformInfoId == "_pinfo"
CommandIds == {"logs", "multi"}

parent_module(monitor) == IF monitor = "E" THEN Some("B") ELSE None
monitor_connector_spec(monitor) == IF monitor = "I" THEN None ELSE Some("ssh")
monitor_category(monitor) == IF monitor = "I" THEN "host" ELSE "docker"
\* "plain" keeps the default of the CommandModule trait: no connector.
command_connector_spec(command) == IF command = "plain" THEN None ELSE Some("ssh")

\* get_connector_messages(host, parent_result) ++ [get_connector_message(host, parent_result)]
\* of a monitor: the message names the module and the parent result it was built from.
monitor_messages(monitor, parent_result) ==
    << monitor \o ":" \o ToString(Len(parent_result.value)) >>

ResponseMessage_empty == OkResponse("", "", 0)

\* Result<DataPoint, String> and Result<CommandResult, String>
OkPoint(data_point) == [ok |-> TRUE, data_point |-> data_point, error |-> ""]
ErrPoint(error) == [ok |-> FALSE, data_point |-> DataPoint_empty, error |-> error]

PlatformInfoPoint(payload) ==
    [DataPoint_new(<<"_platform_info">>, "Normal") EXCEPT
        !.multivalue = IF payload = "crit"
                       THEN <<[label |-> "os", value |-> "unknown-os"]>>
                       ELSE <<[label |-> "os", value |-> "linux"],
                              [label |-> "architecture", value |-> "x86_64"]>>]

\* MonitoringModule::process_response: a response the module cannot parse is
\* an error; otherwise the point is built from the module, the response and
\* the parent result, and the response decides the criticality.
process_response(monitor, response, parent_result) ==
    IF response.message = "garbage" THEN ErrPoint("parse error")
    ELSE IF response.message = "" /\ IsSome(monitor_connector_spec(monitor))
         THEN ErrPoint("empty response")
    ELSE IF monitor = PlatformInfoId THEN OkPoint(PlatformInfoPoint(response.message))
    ELSE OkPoint(DataPoint_new(<<monitor, response.message>> \o parent_result.value,
                               IF response.message = "crit" THEN "Critical" ELSE "Normal"))

\* MonitoringModule::process_responses (multi-message form)
process_responses(monitor, responses, parent_result) ==
    IF \E i \in 1..Len(responses) : responses[i].message = "garbage" THEN ErrPoint("parse error")
    ELSE OkPoint(DataPoint_new(<<monitor>> \o [i \in 1..Len(responses) |-> responses[i].message]
                                   \o parent_result.value,
                               IF \E i \in 1..Len(responses) : responses[i].message = "crit"
                               THEN "Critical" ELSE "Normal"))

IsOk(r) == r.ok
IsErr(r) == ~r.ok

(***************************************************************************)
(* Messages on the two channels.                                           *)
(***************************************************************************)
\* The closure built by a get_response_handler* function.  `origin` is
\* history: the dispatcher operation the chain of requests started from and
\* the modules configured on the host at that time.
Handler(kind, modules, invocation_id, parent_result, origin) ==
    [kind |-> kind, modules |-> modules, invocation_id |-> invocation_id,
     parent_result |-> parent_result, origin |-> origin]

Origin(op, configured) == [op |-> op, configured |-> configured]

\* `rid` numbers the requests in the order of their creation (history).
ConnectorRequest(rid, connector_spec, source_id, host, messages, request_type, response_handler) ==
    [rid |-> rid, connector_spec |-> connector_spec, source_id |-> source_id, host |-> host,
     messages |-> messages, request_type |-> request_type, response_handler |-> response_handler]

ConnectorRequest_exit_token(rid) ==
    ConnectorRequest(rid, None, "", "", << >>, "Exit", Handler("noop", << >>, 0, DataPoint_empty, Origin("exit", {})))

StateUpdateMessage(host_name, module_id, data_point, command_result) ==
    [host_name |-> host_name, module_id |-> module_id, data_point |-> data_point,
     command_result |-> command_result, errors |-> << >>, exit_thread |-> FALSE]

StateUpdateMessage_exit_token ==
    [host_name |-> "", module_id |-> "", data_point |-> None,
     command_result |-> None, errors |-> << >>, exit_thread |-> TRUE]

CommandResult_new(message, criticality) ==
    [message |-> message, criticality |-> criticality, invocation_id |-> 0, command_id |-> ""]
CommandResult_new_error(error) == CommandResult_new(error, "Error")

\* What a response handler does: the requests and state updates it sends and
\* the modules whose processing hook it called.
Effect(reqs, upds, hooks) == [reqs |-> reqs, upds |-> upds, hooks |-> hooks]

(***************************************************************************)
(* MonitorManager: send_state_update, send_connector_request and the       *)
(* closure of get_response_handler.                                        *)
(***************************************************************************)
send_state_update(host, monitor, data_point) ==
    StateUpdateMessage(host, monitor, Some(data_point), None)

\* A send_connector_request that starts every stage from the seed point,
\* dropping the result it was given.
send_connector_request_seeded(rid, host, request_monitors, invocation_id, parent_result, origin) ==
    LET monitor == Head(request_monitors) IN
    ConnectorRequest(rid, monitor_connector_spec(monitor), monitor, host,
                     monitor_messages(monitor, DataPoint_empty_and_critical), "Command",
                     Handler("monitor", request_monitors, invocation_id,
                             DataPoint_empty_and_critical, origin))

send_connector_request(rid, host, request_monitors, invocation_id, parent_result, origin) ==
    LET monitor == Head(request_monitors) IN
    ConnectorRequest(rid, monitor_connector_spec(monitor), monitor, host,
                     monitor_messages(monitor, parent_result), "Command",
                     Handler("monitor", request_monitors, invocation_id, parent_result, origin))

\* A stage that stamps the invocation id only on a point the module
\* produced, and hands parent_result on as it came when the module failed.
StageResult_unstamped_on_error(monitor, results, parent_result, invocation_id) ==
    LET responses == SelectSeq(results, IsOk)
        errors == SelectSeq(results, IsErr)
        process_result ==
            IF Len(responses) > 1 THEN process_responses(monitor, responses, parent_result)
            ELSE IF Len(responses) = 1 THEN process_response(monitor, responses[1], parent_result)
            ELSE process_response(monitor, ResponseMessage_empty, parent_result)
    IN IF errors = << >> /\ process_result.ok
       THEN [process_result.data_point EXCEPT !.invocation_id = invocation_id]
       ELSE parent_result

\* The data point a stage of a chain carries forward.
StageResult(monitor, results, parent_result, invocation_id) ==
    LET responses == SelectSeq(results, IsOk)
        errors == SelectSeq(results, IsErr)
        process_result ==
            IF Len(responses) > 1 THEN process_responses(monitor, responses, parent_result)
            ELSE IF Len(responses) = 1 THEN process_response(monitor, responses[1], parent_result)
            ELSE process_response(monitor, ResponseMessage_empty, parent_result)
        new_result == IF errors = << >> /\ process_result.ok
                      THEN process_result.data_point
                      ELSE parent_result
    IN [new_result EXCEPT !.invocation_id = invocation_id]

MonitorResponseHandler(handler, host, results, rid) ==
    LET monitor == Head(handler.modules)
        rest == Tail(handler.modules)
        errors == SelectSeq(results, IsErr)
        new_result == StageResult(monitor, results, handler.parent_result, handler.invocation_id)
        hooks == IF errors = << >> THEN <<monitor>> ELSE << >>
    IN IF rest # << >>
       THEN \* Process extension modules recursively until the final result is reached.
            Effect(<<send_connector_request(rid, host, rest, handler.invocation_id, new_result,
                                           handler.origin)>>,
                   << >>, hooks)
       ELSE Effect(<< >>, <<send_state_update(host, monitor, new_result)>>, hooks)

(***************************************************************************)
(* CommandHandler: command modules and the closure of                      *)
(* get_response_handler.                                                   *)
(***************************************************************************)
\* Result<CommandResult, String>
OkResult(command_result) == [ok |-> TRUE, command_result |-> command_result, error |-> ""]
ErrResult(error) == [ok |-> FALSE, command_result |-> CommandResult_new("", "Normal"), error |-> error]

\* CommandModule::process_response
command_process_response(command, response) ==
    IF response.message = "garbage" THEN ErrResult("parse error")
    ELSE OkResult(CommandResult_new(response.message,
                                    IF response.message = "crit" THEN "Critical" ELSE "Normal"))

\* CommandModule::process_responses: an empty error means "not implemented".
command_process_responses(command, responses) ==
    IF command # "multi" THEN ErrResult("")
    ELSE IF \E i \in 1..Len(responses) : responses[i].message = "garbage"
         THEN ErrResult("parse error")
    ELSE OkResult(CommandResult_new(responses[Len(responses)].message, "Normal"))

\* The error messages of the Err responses, in their order.
ErrorMessages(results) ==
    LET errors == SelectSeq(results, IsErr) IN [i \in 1..Len(errors) |-> errors[i].message]

\* A handler that publishes only the results of commands that succeeded.
CommandResponseHandler_silent_on_error(handler, host, results) ==
    LET command == Head(handler.modules)
        responses == SelectSeq(results, IsOk)
        first_result == command_process_responses(command, responses)
        result == IF responses # << >>
                  THEN IF ~first_result.ok /\ first_result.error = ""
                       THEN command_process_response(command, responses[1])
                       ELSE first_result
                  ELSE ErrResult("No responses received for command")
    IN IF result.ok
       THEN Effect(<< >>,
                   <<[StateUpdateMessage(host, command, None,
                         Some([result.command_result EXCEPT
                                  !.invocation_id = handler.invocation_id,
                                  !.command_id = command]))
                        EXCEPT !.errors = ErrorMessages(results)]>>,
                   << >>)
       ELSE Effect(<< >>, << >>, << >>)

\* The closure of CommandHandler::get_response_handler
CommandResponseHandler(handler, host, results) ==
    LET command == Head(handler.modules)
        responses == SelectSeq(results, IsOk)
        first_result == command_process_responses(command, responses)
        result == IF responses # << >>
                  THEN IF ~first_result.ok /\ first_result.error = ""
                       THEN command_process_response(command, responses[1])
                       ELSE first_result
                  ELSE ErrResult("No responses received for command")
        new_command_result ==
            IF result.ok
            THEN Some([result.command_result EXCEPT !.invocation_id = handler.invocation_id,
                                                    !.command_id = command])
            ELSE None
        errors == IF result.ok THEN ErrorMessages(results)
                  ELSE Append(ErrorMessages(results), result.error)
    IN Effect(<< >>,
              <<[StateUpdateMessage(host, command, None, new_command_result)
                   EXCEPT !.errors = errors]>>,
              << >>)

\* Invoking request.response_handler with the response list.
\* CommandResult::new_critical_error, new_info and with_invocation_id
CommandResult_new_critical_error(error) == CommandResult_new(error, "Critical")
CommandResult_new_info(message) == CommandResult_new(message, "Info")
with_invocation_id(command_result, invocation_id) ==
    [command_result EXCEPT !.invocation_id = invocation_id]

\* The closure of get_response_handler_upload_file
UploadFileHandler(handler, host, results) ==
    LET command == Head(handler.modules)
        response == results[1]
        command_result ==
            IF response.ok
            THEN with_invocation_id(CommandResult_new_info(response.message),
                                    handler.invocation_id)
            ELSE with_invocation_id(
                     CommandResult_new_critical_error("Error uploading file: " \o response.message),
                     handler.invocation_id)
    IN Effect(<< >>, <<StateUpdateMessage(host, command, None, Some(command_result))>>, << >>)

\* CommandResult::new_hidden
CommandResult_new_hidden(message) == CommandResult_new(message, "Hidden")

\* command.get_display_options().action == UIAction::TextEditor
load_contents(command) == command = "multi"

\* The closure of get_response_handler_download_file, for a read_file that
\* succeeded.
DownloadFileHandler(handler, host, results) ==
    LET command == Head(handler.modules)
        response == results[1]
        local_file_path == response.message
        command_result ==
            IF response.ok
            THEN with_invocation_id(
                     CommandResult_new_hidden(IF load_contents(command)
                                              THEN "contents of " \o local_file_path
                                              ELSE local_file_path),
                     handler.invocation_id)
            ELSE CommandResult_new_critical_error("Error downloading file: " \o response.message)
    IN Effect(<< >>, <<StateUpdateMessage(host, command, None, Some(command_result))>>, << >>)

\* The closure of get_response_handler_external_text_editor.  `launch` is
\* the outcome of running the local editor; as history, `hooks` records the
\* editor run with the file it was given.
ExternalTextEditorHandler(handler, host, results, rid, launch) ==
    LET command == Head(handler.modules)
        response == results[1]
    IN IF response.ok THEN
          LET local_file == response.message
              hooks == <<"text_editor " \o local_file>>
          IN IF launch = "err" THEN Effect(<< >>, << >>, hooks)
             ELSE Effect(<<ConnectorRequest(rid, command_connector_spec(command), command, host,
                                            <<response.message>>, "Upload",
                                            Handler("upload", <<command>>, 0, DataPoint_empty,
                                                    handler.origin))>>,
                         << >>, hooks)
       ELSE Effect(<< >>,
                   <<StateUpdateMessage(host, command, None,
                        Some(CommandResult_new_critical_error(
                                 "Error downloading file: " \o response.message)))>>,
                   << >>)

\* The outcomes of the local editor run a handler call can meet.
LaunchOutcomes(request, results) ==
    IF request.response_handler.kind = "editor" /\ results # << >> /\ results[1].ok
    THEN {"ok", "err"}
    ELSE IF /\ request.response_handler.kind = "download"
            /\ load_contents(Head(request.response_handler.modules))
            /\ results # << >>
            /\ results[1].ok
         THEN {"read", "read_err"}
         ELSE {"none"}

RunHandler(request, results, rid, launch) ==
    LET handler == request.response_handler IN
    CASE handler.kind = "monitor" -> MonitorResponseHandler(handler, request.host, results, rid)
      [] handler.kind = "command" -> CommandResponseHandler(handler, request.host, results)
      [] handler.kind = "editor" ->
            ExternalTextEditorHandler(handler, request.host, results, rid, launch)
      [] handler.kind = "upload" -> UploadFileHandler(handler, request.host, results)
      [] handler.kind = "download" -> DownloadFileHandler(handler, request.host, results)
      [] OTHER -> Effect(<< >>, << >>, << >>)

(***************************************************************************)
(* ConnectionManager                                                       *)
(***************************************************************************)
\* A connector in the table: `inst` tells the instances apart.
Connector(inst) == [inst |-> inst, connected |-> FALSE]

\* The receiver of a channel lives as long as its worker thread: a worker is
\* "running" at recv(), and "serving", "applying", "notifying" or "exiting"
\* while it holds a lock inside an iteration.
ReceiverAlive(receiver_state) ==
    receiver_state \in {"running", "serving", "applying", "notifying", "exiting"}

\* A channel that hands the newest message to the receiver first.
Send_newest_first(queue, messages, receiver_state) ==
    IF ReceiverAlive(receiver_state) THEN messages \o queue ELSE queue

\* mpsc::Sender::send: fails once the receiving worker is gone.
Send(queue, messages, receiver_state) ==
    IF ReceiverAlive(receiver_state) THEN queue \o messages ELSE queue

\* The record kept for the request the worker dequeued last: the request,
\* how the connection went ("none", "failed", "connected", "reused"), the
\* connector calls made, and each call of the response handler with what
\* the handler did.
Served(request, connect, io, handler_calls, effects) ==
    [request |-> request, connect |-> connect, attempted |-> io.attempted, raw |-> io.raw,
     handler_calls |-> handler_calls, effects |-> effects]

\* An iteration that sent something although it had no connector to send to.
NoIo_sent ==
    LoopState(<<ErrResponse("m1", "no connector")>>, <<"m1">>,
              <<ErrResponse("m1", "no connector")>>)

NoIo == LoopState(<< >>, << >>, << >>)

\* The record kept for the last call made on a manager: its arguments, what
\* it returned (the ids of a dispatcher call, the Result of add_host) and,
\* in the order of sending, the requests it sent.
Dispatched(op, args, returned, sent) ==
    [op |-> op, args |-> args, returned |-> returned, sent |-> sent]

\* Recording a call that sends no request.
RecordCall(op, args, returned) ==
    /\ dispatched' = Some(Dispatched(op, args, returned, << >>))
    /\ UNCHANGED <<calls, max_sent>>

\* An add_connector that puts the new connector in place of the one the
\* table holds.
insert_connector_replacing(entry, connector) == Some(connector)

\* `if !host_connectors.contains_key(&module_spec) { insert }`
insert_connector(entry, connector) ==
    IF IsSome(entry) THEN entry ELSE Some(connector)

\* ConnectionManager::add_connector; lock().unwrap() panics on a poisoned lock.
add_connector(host, spec, inst) ==
    /\ orch_state = "running"
    /\ IF cm_state = "panicked"
       THEN orch_state' = "panicked" /\ UNCHANGED <<connectors, disp_vars>>
       ELSE /\ connectors' = [connectors EXCEPT ![host][spec] =
                                 insert_connector(@, Connector(inst))]
            /\ RecordCall("add_connector", <<host, spec, inst>>, << >>)
            /\ UNCHANGED orch_state
    /\ UNCHANGED <<req_queue, cm_state, hm_vars, mm_vars, ch_vars,
                   last_applied, next_rid, last_served, published>>

\* The history of the state updates sent: those the channel accepted.
UpdateKey(message) ==
    [host |-> message.host_name, module |-> message.module_id,
     invocation_id |-> IF IsSome(message.data_point) THEN Unwrap(message.data_point).invocation_id
                       ELSE IF IsSome(message.command_result)
                            THEN Unwrap(message.command_result).invocation_id
                            ELSE 0]

RECURSIVE AddToBag(_, _)
AddToBag(bag, messages) ==
    IF messages = << >> THEN bag
    ELSE AddToBag(bag (+) SetToBag({UpdateKey(Head(messages))}), Tail(messages))

Publish(messages) == IF ReceiverAlive(hm_state) THEN AddToBag(published, messages) ELSE published

\* The handler call panics: `responses.first().unwrap()` of the file
\* handlers on an empty vector, and the `.unwrap()` of the upload handler on
\* a failed send of its state update.
HandlerPanics(request, results) ==
    \/ request.response_handler.kind \in {"editor", "upload", "download"} /\ results = << >>
    \/ request.response_handler.kind = "upload" /\ ~ReceiverAlive(hm_state)

\* The worker invokes the handler and goes back to recv().
InvokeHandler(request, connect, io) ==
    \E launch \in LaunchOutcomes(request, io.responses) :
       \* file_handler::read_file(..).unwrap() panics like the other unwraps
       IF HandlerPanics(request, io.responses) \/ launch = "read_err" THEN
          /\ cm_state' = "panicked"
          /\ req_queue' = Tail(req_queue)
          /\ last_served' = Some(Served(request, connect, io, <<io.responses>>, << >>))
          /\ UNCHANGED <<upd_queue, next_rid, published>>
       ELSE
          LET effect == RunHandler(request, io.responses, next_rid + 1, launch) IN
          /\ req_queue' = Tail(req_queue) \o effect.reqs
          /\ next_rid' = next_rid + Len(effect.reqs)
          /\ upd_queue' = Send(upd_queue, effect.upds, hm_state)
          /\ published' = Publish(effect.upds)
          /\ last_served' = Some(Served(request, connect, io, <<io.responses>>, <<effect>>))
          /\ cm_state' = "running"

\* A connector that never reports an open session.
is_connected_never(connector) == FALSE

\* connector.is_connected()
is_connected(connector) == connector.connected

\* The body of the loop of start_receiving_messages from the request that
\* recv() returns to the call of its handler; the worker is back at recv()
\* afterwards unless it returned or panicked.
ServeNextRequest ==
    /\ req_queue # << >>
    /\ LET request == Head(req_queue) IN
       IF request.request_type = "Exit" THEN
          /\ cm_state' = "exited"
          /\ req_queue' = Tail(req_queue)
          /\ UNCHANGED <<connectors, upd_queue, next_rid, last_served, published>>
       ELSE IF request.connector_spec = None THEN
          \* Requests with no connector dependency are directly executed here.
          /\ InvokeHandler(request, "none", NoIo)
          /\ UNCHANGED connectors
       ELSE IF connectors[request.host][Unwrap(request.connector_spec)] = None THEN
          \* .unwrap() on a missing connector: the thread panics holding the lock.
          /\ cm_state' = "panicked"
          /\ req_queue' = Tail(req_queue)
          /\ last_served' = Some(Served(request, "none", NoIo, << >>, << >>))
          /\ UNCHANGED <<connectors, upd_queue, next_rid, published>>
       ELSE
          LET spec == Unwrap(request.connector_spec)
              connector == Unwrap(connectors[request.host][spec])
          IN \E connect_ok \in BOOLEAN :
             IF ~is_connected(connector) /\ ~connect_ok THEN
                \* connect() failed: log and continue with the next request.
                /\ req_queue' = Tail(req_queue)
                /\ last_served' = Some(Served(request, "failed", NoIo, << >>, << >>))
                /\ cm_state' = "running"
                /\ UNCHANGED <<connectors, upd_queue, next_rid, published>>
             ELSE
                /\ (is_connected(connector) => connect_ok)
                /\ connectors' = [connectors EXCEPT ![request.host][spec] =
                                     Some([connector EXCEPT !.connected = TRUE])]
                /\ \E outcomes \in [1..Len(request.messages) -> OutcomesOf(request)] :
                      LET io == ProcessMessages(request.request_type, request.messages, outcomes)
                      IN InvokeHandler(request,
                                       IF is_connected(connector) THEN "reused" ELSE "connected",
                                       io)
    /\ UNCHANGED <<hosts, hm_state, observers, mm_vars, ch_vars, orch_state, last_applied, disp_vars>>

\* One iteration of the loop of start_receiving_messages.
CMServe ==
    /\ cm_state = "running"
    /\ ServeNextRequest

ClientHosts == {"h1"}

\* The environment of the ConnectionManager: a client sends a request whose
\* handler only receives the responses.
SendRequest ==
    /\ next_rid < MaxRequests
    /\ \E host \in ClientHosts, spec \in {None} \cup {Some(c) : c \in ConnectorSpecs},
          request_type \in {"Command", "Download", "Upload"}, n \in 0..MaxMessages :
          LET messages == [i \in 1..n |-> "m" \o ToString(i)]
              request == ConnectorRequest(next_rid + 1, spec, "client", host, messages,
                                          request_type, Handler("probe", << >>, 0, DataPoint_empty, Origin("client", {})))
          IN req_queue' = Send(req_queue, <<request>>, cm_state)
    /\ next_rid' = next_rid + 1
    /\ UNCHANGED <<connectors, cm_state, hm_vars, mm_vars, ch_vars, orch_state,
                   last_applied, last_served, disp_vars, published>>

SendExit ==
    /\ next_rid < MaxRequests
    /\ req_queue' = Send(req_queue, <<ConnectorRequest_exit_token(next_rid + 1)>>, cm_state)
    /\ next_rid' = next_rid + 1
    /\ UNCHANGED <<connectors, cm_state, hm_vars, mm_vars, ch_vars, orch_state,
                   last_applied, last_served, disp_vars, published>>

(***************************************************************************)
(* HostManager                                                             *)
(***************************************************************************)
DATA_POINT_BUFFER_SIZE == 4

PlatformInfo_default == [os |-> "", os_version |-> "", os_flavor |-> "", architecture |-> ""]

HostState_from_host(status) ==
    [platform |-> PlatformInfo_default, status |-> status,
     monitor_data |-> << >>, command_results |-> << >>]

\* HostManager::read_platform_info: Result<PlatformInfo, String>
RECURSIVE read_platform_fields(_, _)
read_platform_fields(multivalue, platform) ==
    IF multivalue = << >> THEN [ok |-> TRUE, platform |-> platform]
    ELSE LET data == Head(multivalue) IN
         CASE data.label = "os" ->
                 IF data.value \in {"linux"}
                 THEN read_platform_fields(Tail(multivalue), [platform EXCEPT !.os = data.value])
                 ELSE [ok |-> FALSE, platform |-> platform]
           [] data.label = "os_version" ->
                 read_platform_fields(Tail(multivalue), [platform EXCEPT !.os_version = data.value])
           [] data.label = "os_flavor" ->
                 IF data.value \in {"debian"}
                 THEN read_platform_fields(Tail(multivalue), [platform EXCEPT !.os_flavor = data.value])
                 ELSE [ok |-> FALSE, platform |-> platform]
           [] data.label = "architecture" ->
                 read_platform_fields(Tail(multivalue), [platform EXCEPT !.architecture = data.value])
           [] OTHER -> [ok |-> FALSE, platform |-> platform]

read_platform_info(data_point) == read_platform_fields(data_point.multivalue, PlatformInfo_default)

\* A ring that evicts one point too early.
push_data_point_early(values, data_point) ==
    LET pushed == Append(values, data_point) IN
    IF Len(pushed) >= DATA_POINT_BUFFER_SIZE THEN Tail(pushed) ELSE pushed

\* values.push_back(point), then pop_front() when the ring is over its size
push_data_point(values, data_point) ==
    LET pushed == Append(values, data_point) IN
    IF Len(pushed) > DATA_POINT_BUFFER_SIZE THEN Tail(pushed) ELSE pushed

\* A status that looks at the oldest point of each ring.
update_status_front(host_state) ==
    LET monitor_data == host_state.monitor_data
        critical_monitor == {id \in DOMAIN monitor_data :
                                /\ monitor_data[id].is_critical
                                /\ monitor_data[id].values[1].criticality = "Critical"}
    IN [host_state EXCEPT !.status = IF critical_monitor # {} THEN "Down" ELSE "Up"]

\* HostState::update_status
update_status(host_state) ==
    LET monitor_data == host_state.monitor_data
        critical_monitor == {id \in DOMAIN monitor_data :
                                /\ monitor_data[id].is_critical
                                /\ monitor_data[id].values[Len(monitor_data[id].values)].criticality
                                       = "Critical"}
    IN [host_state EXCEPT !.status = IF critical_monitor # {} THEN "Down" ELSE "Up"]

\* An insert that keeps the result a command id already has,
\* as `entry(id).or_insert(command_result)` would.
insert_command_result_keep_first(command_results, id, command_result) ==
    [c \in DOMAIN command_results \cup {id} |->
        IF c \in DOMAIN command_results THEN command_results[c] ELSE command_result]

\* host_state.command_results.insert(message.module_spec.id, command_result)
insert_command_result(command_results, id, command_result) ==
    [c \in DOMAIN command_results \cup {id} |->
        IF c = id THEN command_result ELSE command_results[c]]

\* The host state after the worker applied `message`; `is_critical` is the
\* flag MonitoringData::new gives a monitor that had no entry yet.
ApplyUpdate(host_state, message, is_critical) ==
    LET id == message.module_id
        monitor_data == host_state.monitor_data
        applied ==
            IF IsSome(message.data_point) THEN
               LET message_data_point == Unwrap(message.data_point) IN
               IF message_data_point.value = <<"_platform_info">> THEN
                  LET platform == read_platform_info(message_data_point) IN
                  IF platform.ok THEN [host_state EXCEPT !.platform = platform.platform]
                  ELSE host_state
               ELSE IF id \in DOMAIN monitor_data THEN
                  [host_state EXCEPT !.monitor_data[id].values =
                                          push_data_point(@, message_data_point)]
               ELSE
                  [host_state EXCEPT !.monitor_data =
                      [m \in DOMAIN monitor_data \cup {id} |->
                          IF m = id THEN [values |-> <<message_data_point>>,
                                          is_critical |-> is_critical]
                          ELSE monitor_data[m]]]
            ELSE IF IsSome(message.command_result) THEN
               [host_state EXCEPT !.command_results =
                   insert_command_result(@, id, Unwrap(message.command_result))]
            ELSE host_state
    IN update_status(applied)

\* A snapshot whose new_monitoring_data keeps every value of the ring,
\* as if `new.values` were not reset to the one new point.
HostDisplayData_whole_ring(name, host_state, message) ==
    LET is_point == /\ IsSome(message.data_point)
                    /\ Unwrap(message.data_point).value # <<"_platform_info">>
    IN [name |-> name, platform |-> host_state.platform,
        monitoring_data |-> host_state.monitor_data,
        new_monitoring_data |->
            IF is_point THEN Some(host_state.monitor_data[message.module_id]) ELSE None,
        command_results |-> host_state.command_results,
        new_command_results |->
            IF ~IsSome(message.data_point) THEN message.command_result ELSE None,
        status |-> host_state.status, exit_thread |-> FALSE]

\* frontend::HostDisplayData sent to the observers for `message`
HostDisplayData(name, host_state, message) ==
    LET is_point == /\ IsSome(message.data_point)
                    /\ Unwrap(message.data_point).value # <<"_platform_info">>
    IN [name |-> name, platform |-> host_state.platform,
        monitoring_data |-> host_state.monitor_data,
        new_monitoring_data |->
            IF is_point THEN Some([values |-> <<Unwrap(message.data_point)>>,
                                   is_critical |-> host_state.monitor_data[message.module_id].is_critical])
            ELSE None,
        command_results |-> host_state.command_results,
        new_command_results |->
            IF ~IsSome(message.data_point) THEN message.command_result ELSE None,
        status |-> host_state.status, exit_thread |-> FALSE]

HostDisplayData_exit_token ==
    [name |-> "", platform |-> PlatformInfo_default, monitoring_data |-> << >>,
     new_monitoring_data |-> None, command_results |-> << >>,
     new_command_results |-> None, status |-> "Pending", exit_thread |-> TRUE]

\* `for observer in observers.iter() { observer.send(data).unwrap() }`:
\* the loop stops, by a panic, at the first observer whose receiver is gone.
FirstClosed(obs) ==
    IF \E i \in 1..Len(obs) : ~obs[i].open
    THEN CHOOSE i \in 1..Len(obs) : ~obs[i].open /\ \A j \in 1..(i - 1) : obs[j].open
    ELSE Len(obs) + 1

FanOut(obs, data) ==
    [i \in 1..Len(obs) |->
        IF i < FirstClosed(obs) THEN [obs[i] EXCEPT !.received = Append(@, data)] ELSE obs[i]]

\* A HostCollection::add that reports the duplicate and still stores the
\* new host.
HostCollection_add_replacing(entry, default_status) ==
    [result |-> IF IsSome(entry) THEN "Err" ELSE "Ok",
     entry |-> Some(HostState_from_host(default_status))]

\* HostCollection::add: Result<(), String> and the entry of the host's name
HostCollection_add(entry, default_status) ==
    IF IsSome(entry)
    THEN [result |-> "Err", entry |-> entry]
    ELSE [result |-> "Ok", entry |-> Some(HostState_from_host(default_status))]

\* HostManager::add_host
add_host(host) ==
    /\ orch_state = "running"
    /\ IF hm_state = "panicked"
       THEN orch_state' = "panicked" /\ UNCHANGED <<hosts, disp_vars>>
       ELSE LET added == HostCollection_add(hosts[host], "Pending") IN
            /\ hosts' = [hosts EXCEPT ![host] = added.entry]
            /\ RecordCall("add_host", <<host>>, <<added.result>>)
            /\ UNCHANGED orch_state
    /\ UNCHANGED <<cm_vars, upd_queue, hm_state, observers, mm_vars, ch_vars,
                   last_applied, next_rid, last_served, published>>

\* The record kept for the update the worker took from the channel last:
\* `outcome` is "applied", "exit" or "unknown_host", `before` the state of
\* the host when the worker looked it up.
Applied(message, outcome, before) ==
    [message |-> message, outcome |-> outcome, before |-> before]

\* The body of the loop of start_receiving_updates from the message that
\* recv() returns to the last send to an observer.
ApplyNextUpdate ==
    /\ upd_queue # << >>
    /\ LET message == Head(upd_queue) IN
       /\ upd_queue' = Tail(upd_queue)
       /\ IF message.exit_thread THEN
             /\ observers' = FanOut(observers, HostDisplayData_exit_token)
             /\ hm_state' = IF FirstClosed(observers) <= Len(observers)
                            THEN "panicked_at_exit" ELSE "exited"
             /\ last_applied' = Some(Applied(message, "exit", None))
             /\ UNCHANGED hosts
          ELSE IF message.host_name \notin DOMAIN hosts \/ hosts[message.host_name] = None THEN
             \* .unwrap() on an unknown host
             /\ hm_state' = "panicked"
             /\ last_applied' = Some(Applied(message, "unknown_host", None))
             /\ UNCHANGED <<hosts, observers>>
          ELSE
             \E is_critical \in BOOLEAN :
                LET host_state == ApplyUpdate(Unwrap(hosts[message.host_name]), message, is_critical)
                IN /\ hosts' = [hosts EXCEPT ![message.host_name] = Some(host_state)]
                   /\ observers' = FanOut(observers,
                                          HostDisplayData(message.host_name, host_state, message))
                   /\ hm_state' = IF FirstClosed(observers) <= Len(observers)
                                  THEN "panicked" ELSE "running"
                   /\ last_applied' = Some(Applied(message, "applied", hosts[message.host_name]))
    /\ UNCHANGED <<cm_vars, mm_vars, ch_vars, orch_state, next_rid, last_served,
                   disp_vars, published>>

\* One iteration of the loop of start_receiving_updates.
HMApply ==
    /\ hm_state = "running"
    /\ ApplyNextUpdate

\* HostManager::add_observer
add_observer ==
    /\ orch_state = "running"
    /\ Len(observers) < MaxObservers
    /\ IF hm_state = "panicked_at_exit"
       THEN orch_state' = "panicked" /\ UNCHANGED observers
       ELSE /\ observers' = Append(observers, [open |-> TRUE, received |-> << >>])
            /\ UNCHANGED orch_state
    /\ UNCHANGED <<cm_vars, hosts, upd_queue, hm_state, mm_vars, ch_vars,
                   last_applied, next_rid, last_served, disp_vars, published>>

\* An observer drops its receiver.
DropObserver ==
    /\ \E i \in 1..Len(observers) :
          /\ observers[i].open
          /\ observers' = [observers EXCEPT ![i].open = FALSE]
    /\ UNCHANGED <<cm_vars, hosts, upd_queue, hm_state, mm_vars, ch_vars, orch_state,
                   last_applied, next_rid, last_served, disp_vars, published>>

\* The environment of the HostManager: a holder of a state update sender
\* sends a message.  "h1" is the host that gets registered; "h2" never is.
UpdateChoices ==
    {StateUpdateMessage("h1", "B", Some(DataPoint_new(<<"B">>, criticality)), None) :
        criticality \in {"Normal", "Critical"}}
    \cup {StateUpdateMessage("h1", "I", Some(DataPoint_new(<<"I">>, "Critical")), None)}
    \cup {StateUpdateMessage("h1", PlatformInfoId, Some(PlatformInfoPoint(payload)), None) :
        payload \in {"ok", "crit"}}
    \cup {StateUpdateMessage("h1", "logs", None, Some(CommandResult_new("done", "Normal")))}
    \cup {StateUpdateMessage("h2", "B", Some(DataPoint_new(<<"B">>, "Normal")), None)}
    \cup {StateUpdateMessage_exit_token}

SendUpdate(message) ==
    /\ Len(upd_queue) < MaxQueue
    /\ upd_queue' = Send(upd_queue, <<message>>, hm_state)
    /\ UNCHANGED <<cm_vars, hosts, hm_state, observers, mm_vars, ch_vars, orch_state,
                   last_applied, next_rid, last_served, disp_vars, published>>

SendStateUpdate == \E message \in UpdateChoices : SendUpdate(message)

(***************************************************************************)
(* Specifications                                                          *)
(***************************************************************************)
Init ==
    /\ connectors = [h \in HostNames |-> [c \in ConnectorSpecs |-> None]]
    /\ req_queue = << >>
    /\ cm_state = "running"
    /\ hosts = [h \in HostNames |-> None]
    /\ upd_queue = << >>
    /\ hm_state = "running"
    /\ observers = << >>
    /\ monitors = [h \in HostNames |-> {}]
    /\ mm_counter = 0
    /\ commands = [h \in HostNames |-> {}]
    /\ ch_counter = 0
    /\ orch_state = "running"
    /\ last_applied = None
    /\ next_rid = 0
    /\ last_served = None
    /\ dispatched = None
    /\ calls = 0
    /\ max_sent = [mm |-> 0, ch |-> 0]
    /\ published = EmptyBag

\* The ConnectionManager serving the requests of arbitrary clients.
ConnectorInstances == {1, 2}    \* the Connector values handed to add_connector
AddConnector ==
    \E host \in ClientHosts, spec \in ConnectorSpecs, inst \in ConnectorInstances :
        add_connector(host, spec, inst)

NextCM == AddConnector \/ SendRequest \/ SendExit \/ CMServe
SpecCM == Init /\ [][NextCM]_vars

\* The HostManager applying the state updates of arbitrary senders.
AddHost == add_host("h1")

NextHM == AddHost \/ SendStateUpdate \/ HMApply
SpecHM == Init /\ [][NextHM]_vars

(***************************************************************************)
(* MonitorManager                                                          *)
(***************************************************************************)
MaxCalls == 2           \* refresh and execute calls of the orchestrator
MaxServedCalls == 1     \* refresh calls whose requests the worker serves, in SpecMM

Perms(S) == {f \in [1..Cardinality(S) -> S] : \A i, j \in DOMAIN f : i # j => f[i] # f[j]}

InvocationIds(requests) == [i \in 1..Len(requests) |-> requests[i].response_handler.invocation_id]

MaxOf(n, ids) == IF \E i \in 1..Len(ids) : ids[i] > n
                 THEN CHOOSE m \in Range(ids) : \A i \in 1..Len(ids) : ids[i] <= m
                 ELSE n

\* Recording a call of the MonitorManager.
RecordMM(op, args, returned, sent, counted) ==
    /\ dispatched' = Some(Dispatched(op, args, returned, sent))
    /\ calls' = IF counted THEN calls + 1 ELSE calls
    /\ max_sent' = [max_sent EXCEPT !.mm = MaxOf(@, InvocationIds(sent))]

\* HostManager::get_host, called by the dispatchers: panics on a poisoned
\* lock and on an unknown host.
get_host_panics(host) == hm_state = "panicked" \/ hosts[host] = None

\* MonitorManager::add_monitor
add_monitor(host, monitor) ==
    /\ orch_state = "running"
    /\ monitor \notin monitors[host]
    /\ monitors' = [monitors EXCEPT ![host] = @ \cup {monitor}]
    /\ LET independent == monitor_connector_spec(monitor) = None
           invocation_id == mm_counter + 1
           request == ConnectorRequest(next_rid + 1, None, monitor, host, << >>, "Command",
                          Handler("monitor", <<monitor>>, invocation_id,
                                  DataPoint_empty_and_critical,
                                  Origin("add_monitor", monitors[host] \cup {monitor})))
           seed == send_state_update(host, monitor, DataPoint_no_data)
       IN /\ mm_counter' = IF independent THEN invocation_id ELSE mm_counter
          /\ req_queue' = IF independent THEN Send(req_queue, <<request>>, cm_state) ELSE req_queue
          /\ next_rid' = IF independent THEN next_rid + 1 ELSE next_rid
          /\ RecordMM("add_monitor", <<host, monitor>>, << >>, IF independent THEN <<request>> ELSE << >>, FALSE)
          /\ upd_queue' = Send(upd_queue, <<seed>>, hm_state)
          /\ published' = Publish(<<seed>>)
    /\ UNCHANGED <<connectors, cm_state, hosts, hm_state, observers, ch_vars, orch_state,
                   last_applied, last_served>>

\* MonitorManager::refresh_monitors for the selected monitors of one host,
\* the bases taken in the order `order`; `first` is the counter the ids
\* start from and `rid` the number of requests created before.
refresh_monitors(host, selected, order, first, rid, origin) ==
    LET extensions == {m \in selected : IsSome(parent_module(m))}
        request_monitors(base) ==
            IF \E e \in extensions : Unwrap(parent_module(e)) = base
            THEN <<base, CHOOSE e \in extensions : Unwrap(parent_module(e)) = base>>
            ELSE <<base>>
    IN [i \in 1..Len(order) |->
           send_connector_request(rid + i, host, request_monitors(order[i]), first + i,
                                  DataPoint_empty_and_critical, origin)]

Bases(selected) == {m \in selected : parent_module(m) = None}

\* refresh_monitors_of_category and refresh_monitors_by_id: both refresh the
\* monitors `selected` by their filter and then take the last id returned.
RefreshSelected(op, host, selected) ==
    /\ orch_state = "running"
    /\ calls < MaxCalls
    /\ IF get_host_panics(host) \/ monitors[host] = {} THEN
          /\ orch_state' = "panicked"
          /\ RecordMM(op, <<host>>, << >>, << >>, TRUE)
          /\ UNCHANGED <<req_queue, next_rid, mm_counter>>
       ELSE \E order \in Perms(Bases(selected)) :
          LET requests == refresh_monitors(host, selected, order, mm_counter, next_rid,
                                           Origin(op, monitors[host]))
              invocation_ids == InvocationIds(requests)
          IN /\ req_queue' = Send(req_queue, requests, cm_state)
             /\ next_rid' = next_rid + Len(requests)
             /\ RecordMM(op, <<host>>, invocation_ids, requests, TRUE)
             /\ IF invocation_ids = << >>
                THEN \* invocation_ids.last().unwrap()
                     orch_state' = "panicked" /\ UNCHANGED mm_counter
                ELSE /\ mm_counter' = invocation_ids[Len(invocation_ids)]
                     /\ UNCHANGED orch_state
    /\ UNCHANGED <<connectors, cm_state, hm_vars, monitors, ch_vars,
                   last_applied, last_served, published>>

refresh_monitors_of_category(host, category) ==
    RefreshSelected("refresh_monitors_of_category", host,
                    {m \in monitors[host] : monitor_category(m) = category})

refresh_monitors_by_id(host, monitor_id) ==
    RefreshSelected("refresh_monitors_by_id", host, {m \in monitors[host] : m = monitor_id})

\* The loop of refresh_host_monitors over the hosts in `host_order`: every
\* host's ids start from the counter as it was before the call.  The loop
\* ends early when get_host panics.
RECURSIVE refresh_hosts(_, _, _, _, _)
refresh_hosts(host_order, i, base_order, op, requests) ==
    IF i > Len(host_order) THEN [requests |-> requests, panicked |-> FALSE]
    ELSE LET host == host_order[i] IN
         IF get_host_panics(host) THEN [requests |-> requests, panicked |-> TRUE]
         ELSE refresh_hosts(host_order, i + 1, base_order, op,
                  requests \o refresh_monitors(host, monitors[host], base_order[host], mm_counter,
                                               next_rid + Len(requests),
                                               Origin(op, monitors[host])))

BaseOrders(targets) ==
    {order \in [targets -> UNION {Perms(Bases(monitors[h])) : h \in targets}] :
        \A h \in targets : order[h] \in Perms(Bases(monitors[h]))}

\* MonitorManager::refresh_host_monitors; host_filter is an Option<host name>.
refresh_host_monitors(host_filter) ==
    /\ orch_state = "running"
    /\ calls < MaxCalls
    /\ LET targets == {h \in HostNames : monitors[h] # {} /\ (IsSome(host_filter) => h = Unwrap(host_filter))}
       IN \E host_order \in Perms(targets), base_order \in BaseOrders(targets) :
          LET result == refresh_hosts(host_order, 1, base_order, "refresh_host_monitors", << >>)
              invocation_ids == InvocationIds(result.requests)
          IN /\ req_queue' = Send(req_queue, result.requests, cm_state)
             /\ next_rid' = next_rid + Len(result.requests)
             /\ RecordMM("refresh_host_monitors", host_filter,
                         IF result.panicked THEN << >> ELSE invocation_ids, result.requests, TRUE)
             /\ IF result.panicked \/ invocation_ids = << >>
                THEN orch_state' = "panicked" /\ UNCHANGED mm_counter
                ELSE /\ mm_counter' = invocation_ids[Len(invocation_ids)]
                     /\ UNCHANGED orch_state
    /\ UNCHANGED <<connectors, cm_state, hm_vars, monitors, ch_vars,
                   last_applied, last_served, published>>

\* The loop of refresh_platform_info: one request of the internal platform
\* info monitor for every host that has a monitor on the ssh connector.
RECURSIVE platform_info_requests(_, _, _)
platform_info_requests(host_order, i, requests) ==
    IF i > Len(host_order) THEN [requests |-> requests, panicked |-> FALSE]
    ELSE LET host == host_order[i]
             invocation_id == mm_counter + Len(requests) + 1
             request == ConnectorRequest(next_rid + Len(requests) + 1,
                            monitor_connector_spec(PlatformInfoId), PlatformInfoId, host,
                            monitor_messages(PlatformInfoId, DataPoint_empty), "Command",
                            Handler("monitor", <<PlatformInfoId>>, invocation_id,
                                    DataPoint_empty_and_critical,
                                    Origin("refresh_platform_info", monitors[host])))
         IN IF get_host_panics(host) THEN [requests |-> requests, panicked |-> TRUE]
            ELSE IF \E m \in monitors[host] : monitor_connector_spec(m) = Some("ssh")
                 THEN platform_info_requests(host_order, i + 1, Append(requests, request))
                 ELSE platform_info_requests(host_order, i + 1, requests)

\* MonitorManager::refresh_platform_info
refresh_platform_info(host_id) ==
    /\ orch_state = "running"
    /\ calls < MaxCalls
    /\ LET targets == {h \in HostNames : monitors[h] # {} /\ (IsSome(host_id) => h = Unwrap(host_id))}
       IN \E host_order \in Perms(targets) :
          LET result == platform_info_requests(host_order, 1, << >>) IN
          /\ req_queue' = Send(req_queue, result.requests, cm_state)
          /\ next_rid' = next_rid + Len(result.requests)
          /\ mm_counter' = mm_counter + Len(result.requests)
          /\ RecordMM("refresh_platform_info", host_id, << >>, result.requests, TRUE)
          /\ orch_state' = IF result.panicked THEN "panicked" ELSE orch_state
    /\ UNCHANGED <<connectors, cm_state, hm_vars, monitors, ch_vars,
                   last_applied, last_served, published>>

\* The MonitorManager dispatching to the ConnectionManager worker: host
\* "h1" with any of the three monitors.
MMAddHost == add_host("h1")
MMAddConnector == add_connector("h1", "ssh", 1)
AddMonitor == \E monitor \in MonitorIds : add_monitor("h1", monitor)
RefreshPlatformInfo == \E host_id \in {None, Some("h1")} : refresh_platform_info(host_id)
RefreshCategory == \E category \in {"host", "docker"} : refresh_monitors_of_category("h1", category)
RefreshById == \E monitor_id \in MonitorIds : refresh_monitors_by_id("h1", monitor_id)
RefreshHost == \E host_filter \in {None, Some("h1")} : refresh_host_monitors(host_filter)

Refresh == RefreshPlatformInfo \/ RefreshCategory \/ RefreshById \/ RefreshHost

NextMM == MMAddHost \/ MMAddConnector \/ AddMonitor \/ (calls < MaxServedCalls /\ Refresh) \/ CMServe
SpecMM == Init /\ [][NextMM]_vars

\* The MonitorManager dispatching for two hosts: all three monitors on
\* "h1", the base monitor on "h2".
Configurable(host) == IF host = "h1" THEN MonitorIds ELSE {"B"}

AddAnyHost == \E host \in HostNames : add_host(host)
AddAnyMonitor == \E host \in HostNames : \E monitor \in Configurable(host) : add_monitor(host, monitor)
RefreshAnyPlatformInfo == \E host_id \in {None} \cup {Some(h) : h \in HostNames} :
                             refresh_platform_info(host_id)
RefreshAnyCategory == \E host \in HostNames, category \in {"host", "docker"} :
                         refresh_monitors_of_category(host, category)
RefreshAnyById == \E host \in HostNames, monitor_id \in MonitorIds :
                     refresh_monitors_by_id(host, monitor_id)
RefreshAnyHost == \E host_filter \in {None} \cup {Some(h) : h \in HostNames} :
                     refresh_host_monitors(host_filter)

NextDispatch == AddAnyHost \/ AddAnyMonitor \/ RefreshAnyPlatformInfo \/ RefreshAnyCategory
                   \/ RefreshAnyById \/ RefreshAnyHost
SpecDispatch == Init /\ [][NextDispatch]_vars

(***************************************************************************)
(* CommandHandler                                                          *)
(***************************************************************************)
\* Result<Vec<String>, String> and Result<String, String> of a command module
OkMessages(messages) == [ok |-> TRUE, messages |-> messages, error |-> ""]
ErrMessages(error) == [ok |-> FALSE, messages |-> << >>, error |-> error]

\* CommandModule::get_connector_messages: "multi" implements it for the
\* platforms it supports; the default is the empty error "not implemented".
command_get_connector_messages(command, platform) ==
    IF command # "multi" THEN ErrMessages("")
    ELSE IF platform.os = "linux" THEN OkMessages(<<"multi-1", "multi-2">>)
    ELSE ErrMessages("Unsupported platform")

\* CommandModule::get_connector_message, as a list of one message
command_get_connector_message(command, platform) ==
    IF command = "multi" THEN ErrMessages("")
    ELSE IF platform.os = "linux" THEN OkMessages(<<command \o "-cmd">>)
    ELSE ErrMessages("Unsupported platform")

IsNonEmpty(message) == message # ""

\* get_command_connector_messages
get_command_connector_messages(command, platform) ==
    LET multi == command_get_connector_messages(command, platform)
        single == command_get_connector_message(command, platform)
    IN IF ~multi.ok /\ multi.error # "" THEN ErrMessages(multi.error)
       ELSE IF ~single.ok /\ single.error # "" THEN ErrMessages(single.error)
       ELSE OkMessages(SelectSeq(multi.messages \o single.messages, IsNonEmpty))

\* Recording a call of the CommandHandler.
RecordCH(op, args, returned, sent) ==
    /\ dispatched' = Some(Dispatched(op, args, returned, sent))
    /\ calls' = calls + 1
    /\ max_sent' = [max_sent EXCEPT !.ch = MaxOf(@, returned)]

\* CommandHandler::configure, for a configuration in which every host has
\* both commands.
configure ==
    /\ orch_state = "running"
    /\ commands' = [h \in HostNames |-> CommandIds]
    /\ UNCHANGED <<cm_vars, hm_vars, mm_vars, ch_counter, orch_state,
                   last_applied, next_rid, last_served, disp_vars, published>>

\* A counter that is read without being incremented.
KeepInvocationId(counter) == counter

\* self.invocation_id_counter += 1
NextInvocationId(counter) == counter + 1

\* CommandHandler::execute
execute(host_id, command_id) ==
    /\ orch_state = "running"
    /\ calls < MaxCalls
    /\ IF get_host_panics(host_id) \/ command_id \notin commands[host_id] THEN
          /\ orch_state' = "panicked"
          /\ RecordCH("execute", <<host_id, command_id>>, << >>, << >>)
          /\ UNCHANGED <<req_queue, upd_queue, ch_counter, next_rid, published>>
       ELSE
          LET host == Unwrap(hosts[host_id])
              messages == get_command_connector_messages(command_id, host.platform)
              error_update == StateUpdateMessage(host_id, command_id, None,
                                                 Some(CommandResult_new_error(messages.error)))
              invocation_id == NextInvocationId(ch_counter)
              request == ConnectorRequest(next_rid + 1, command_connector_spec(command_id),
                             command_id, host_id, messages.messages, "Command",
                             Handler("command", <<command_id>>, invocation_id, DataPoint_empty,
                                     Origin("execute", commands[host_id])))
          IN IF ~messages.ok THEN
                /\ upd_queue' = Send(upd_queue, <<error_update>>, hm_state)
                /\ published' = Publish(<<error_update>>)
                /\ RecordCH("execute", <<host_id, command_id>>, <<0>>, << >>)
                /\ UNCHANGED <<req_queue, ch_counter, next_rid, orch_state>>
             ELSE
                /\ ch_counter' = invocation_id
                /\ req_queue' = Send(req_queue, <<request>>, cm_state)
                /\ next_rid' = next_rid + 1
                /\ RecordCH("execute", <<host_id, command_id>>, <<invocation_id>>, <<request>>)
                /\ UNCHANGED <<upd_queue, published, orch_state>>
    /\ UNCHANGED <<connectors, cm_state, hosts, hm_state, observers, mm_vars, commands,
                   last_applied, last_served>>

\* The CommandHandler executing commands on host "h1", whose platform gets
\* known when a platform info update is applied.
\* CommandHandler::open_external_text_editor; the remote file path is part
\* of the messages the command generates.
open_external_text_editor(host_id, command_id) ==
    /\ orch_state = "running"
    /\ calls < MaxCalls
    /\ IF \/ get_host_panics(host_id)
          \/ command_id \notin commands[host_id]
          \/ ~get_command_connector_messages(command_id, Unwrap(hosts[host_id]).platform).ok
       THEN \* .unwrap() on a missing host or command and on Err(())
          /\ orch_state' = "panicked"
          /\ RecordCH("open_external_text_editor", <<host_id, command_id>>, << >>, << >>)
          /\ UNCHANGED <<req_queue, next_rid>>
       ELSE
          LET host == Unwrap(hosts[host_id])
              messages == get_command_connector_messages(command_id, host.platform)
              request == ConnectorRequest(next_rid + 1, command_connector_spec(command_id),
                             command_id, host_id, messages.messages, "Download",
                             Handler("editor", <<command_id>>, 0, DataPoint_empty,
                                     Origin("open_external_text_editor", commands[host_id])))
          IN /\ req_queue' = Send(req_queue, <<request>>, cm_state)
             /\ next_rid' = next_rid + 1
             /\ RecordCH("open_external_text_editor", <<host_id, command_id>>, << >>, <<request>>)
             /\ UNCHANGED orch_state
    /\ UNCHANGED <<connectors, cm_state, hm_vars, mm_vars, commands, ch_counter,
                   last_applied, last_served, published>>

\* CommandHandler::download_file; the sends of the file flows are unwrapped.
download_file(host_id, command_id) ==
    /\ orch_state = "running"
    /\ calls < MaxCalls
    /\ IF \/ get_host_panics(host_id)
          \/ command_id \notin commands[host_id]
          \/ ~get_command_connector_messages(command_id, Unwrap(hosts[host_id]).platform).ok
       THEN \* .unwrap() on a missing host or command and on Err(())
          /\ orch_state' = "panicked"
          /\ RecordCH("download_file", <<host_id, command_id>>, << >>, << >>)
          /\ UNCHANGED <<req_queue, next_rid, ch_counter>>
       ELSE
          LET host == Unwrap(hosts[host_id])
              messages == get_command_connector_messages(command_id, host.platform)
              invocation_id == NextInvocationId(ch_counter)
              request == ConnectorRequest(next_rid + 1, command_connector_spec(command_id),
                             command_id, host_id, messages.messages, "Download",
                             Handler("download", <<command_id>>, invocation_id, DataPoint_empty,
                                     Origin("download_file", commands[host_id])))
          IN /\ ch_counter' = invocation_id
             /\ req_queue' = Send(req_queue, <<request>>, cm_state)
             /\ next_rid' = next_rid + 1
             /\ IF cm_state = "running"
                THEN /\ RecordCH("download_file", <<host_id, command_id>>,
                                 <<invocation_id>>, <<request>>)
                     /\ UNCHANGED orch_state
                ELSE \* send(..).unwrap() on a channel whose receiver is gone
                     /\ orch_state' = "panicked"
                     /\ RecordCH("download_file", <<host_id, command_id>>, << >>, << >>)
    /\ UNCHANGED <<connectors, cm_state, hm_vars, mm_vars, commands,
                   last_applied, last_served, published>>

\* CommandHandler::save_and_upload_file; `updated` is the outcome of
\* file_handler::update_file, which is unwrapped.
save_and_upload_file(host_id, command_id, local_file_path, updated) ==
    /\ orch_state = "running"
    /\ calls < MaxCalls
    /\ IF get_host_panics(host_id) \/ command_id \notin commands[host_id] \/ ~updated
       THEN /\ orch_state' = "panicked"
            /\ RecordCH("save_and_upload_file", <<host_id, command_id>>, << >>, << >>)
            /\ UNCHANGED <<req_queue, next_rid, ch_counter>>
       ELSE
          LET invocation_id == NextInvocationId(ch_counter)
              request == ConnectorRequest(next_rid + 1, command_connector_spec(command_id),
                             command_id, host_id, <<local_file_path>>, "Upload",
                             Handler("upload", <<command_id>>, invocation_id, DataPoint_empty,
                                     Origin("save_and_upload_file", commands[host_id])))
          IN /\ ch_counter' = invocation_id
             /\ req_queue' = Send(req_queue, <<request>>, cm_state)
             /\ next_rid' = next_rid + 1
             /\ IF cm_state = "running"
                THEN /\ RecordCH("save_and_upload_file", <<host_id, command_id>>,
                                 <<invocation_id>>, <<request>>)
                     /\ UNCHANGED orch_state
                ELSE /\ orch_state' = "panicked"
                     /\ RecordCH("save_and_upload_file", <<host_id, command_id>>, << >>, << >>)
    /\ UNCHANGED <<connectors, cm_state, hm_vars, mm_vars, commands,
                   last_applied, last_served, published>>

Execute == \E command_id \in CommandIds : execute("h1", command_id)
SendPlatformInfo ==
    SendUpdate(StateUpdateMessage("h1", PlatformInfoId, Some(PlatformInfoPoint("ok")), None))

NextCH == MMAddHost \/ MMAddConnector \/ configure \/ SendPlatformInfo \/ HMApply \/ Execute \/ CMServe
SpecCH == Init /\ [][NextCH]_vars

\* The external text-editor flow of the CommandHandler.
OpenEditor == \E command_id \in CommandIds : open_external_text_editor("h1", command_id)

\* The file flows of the CommandHandler, for a configuration whose hosts
\* have the commands multi and plain, with the shutdown of the HostManager.
FileCommandIds == {"multi", "plain"}

configure_files ==
    /\ orch_state = "running"
    /\ commands' = [h \in HostNames |-> FileCommandIds]
    /\ UNCHANGED <<cm_vars, hm_vars, mm_vars, ch_counter, orch_state,
                   last_applied, next_rid, last_served, disp_vars, published>>

DownloadFile == \E command_id \in FileCommandIds : download_file("h1", command_id)
SaveAndUploadFile ==
    \E command_id \in FileCommandIds, updated \in BOOLEAN :
        save_and_upload_file("h1", command_id, "f", updated)
OpenFileEditor == open_external_text_editor("h1", "multi")
SendStateExit == SendUpdate(StateUpdateMessage_exit_token)

NextFile ==
    MMAddHost \/ MMAddConnector \/ configure_files \/ SendPlatformInfo \/ SendStateExit
       \/ HMApply \/ DownloadFile \/ SaveAndUploadFile \/ OpenFileEditor \/ CMServe
SpecFile == Init /\ [][NextFile]_vars

NextEdit ==
    MMAddHost \/ MMAddConnector \/ configure \/ SendPlatformInfo \/ HMApply
       \/ OpenEditor \/ CMServe
SpecEdit == Init /\ [][NextEdit]_vars


(***************************************************************************)
(* Properties of the ConnectionManager worker (SpecCM).                    *)
(***************************************************************************)
\* The worker went back to recv() after the request it dequeued last.
WentOn == cm_state = "running" /\ IsSome(last_served)

\* C1: every request the worker dequeued and went on from (any request but
\* the Exit token) has had its response_handler invoked exactly once,
\* whatever the connector did.
C1_HandlerInvokedExactlyOnce ==
    WentOn => Len(Unwrap(last_served).handler_calls) = 1

\* The position of the first connector answer that is Ok with a non-zero
\* return code, 0 if there is none.
FirstNonZero(raw) ==
    LET failing == {k \in 1..Len(raw) : raw[k].ok /\ raw[k].return_code # 0}
    IN IF failing = {} THEN 0 ELSE CHOOSE k \in failing : \A j \in failing : k <= j

\* C2: in a Command request on a connected connector, if m_k is the first
\* message answered with a non-zero return code, the response list handed
\* to the handler has length k, its k-th entry is that answer, and
\* send_message was called for m_1..m_k only.
C2_ShortCircuitLength ==
    IsSome(last_served) =>
        LET served == Unwrap(last_served)
            k == FirstNonZero(served.raw)
        IN (served.request.request_type = "Command"
              /\ served.connect \in {"connected", "reused"} /\ k > 0) =>
           /\ Len(served.handler_calls) = 1
           /\ Len(served.handler_calls[1]) = k
           /\ served.handler_calls[1][k] = served.raw[k]
           /\ served.attempted = SubSeq(served.request.messages, 1, k)

\* C3: when connect() fails on a disconnected connector, no message of the
\* request is attempted, the handler is invoked once with a vector holding
\* exactly one Err entry, and the worker goes on.
C3_ConnectFailureReported ==
    (IsSome(last_served) /\ Unwrap(last_served).connect = "failed") =>
        LET served == Unwrap(last_served) IN
        /\ served.attempted = << >>
        /\ Len(served.handler_calls) = 1
        /\ Len(served.handler_calls[1]) = 1
        /\ ~served.handler_calls[1][1].ok
        /\ cm_state = "running"


(***************************************************************************)
(* Properties of the HostManager worker (SpecHM).                          *)
(***************************************************************************)
\* The worker applied its last update to `host`.
LastAppliedTo(host) ==
    /\ IsSome(last_applied)
    /\ Unwrap(last_applied).outcome = "applied"
    /\ Unwrap(last_applied).message.host_name = host

Latest(monitoring_data) == monitoring_data.values[Len(monitoring_data.values)]

HasCriticalMonitor(host_state) ==
    \E id \in DOMAIN host_state.monitor_data :
        /\ host_state.monitor_data[id].is_critical
        /\ Latest(host_state.monitor_data[id]).criticality = "Critical"

\* C4: once the worker has applied an update for host h, status(h) is Down
\* if and only if some monitor of h is flagged is_critical and its most
\* recent data point is Critical; otherwise status(h) is Up.
C4_StatusLaw ==
    \A h \in HostNames :
        IsSome(hosts[h]) =>
            LET host_state == Unwrap(hosts[h]) IN
            (LastAppliedTo(h) \/ host_state.status # "Pending") =>
                /\ host_state.status \in {"Up", "Down"}
                /\ host_state.status = "Down" <=> HasCriticalMonitor(host_state)

\* C4 witness: after an update, a host is Up although a monitor that is not
\* flagged is at Critical and a flagged monitor was at Critical before its
\* latest point.
C4_Witness ==
    /\ LastAppliedTo("h1")
    /\ IsSome(hosts["h1"])
    /\ LET host_state == Unwrap(hosts["h1"])
           monitor_data == host_state.monitor_data
       IN /\ host_state.status = "Up"
          /\ \E id \in DOMAIN monitor_data :
                ~monitor_data[id].is_critical /\ Latest(monitor_data[id]).criticality = "Critical"
          /\ \E id \in DOMAIN monitor_data :
                /\ monitor_data[id].is_critical
                /\ monitor_data[id].values[1].criticality = "Critical"
                /\ Latest(monitor_data[id]).criticality = "Normal"

\* The worker applied a monitor data point last.
LastAppliedPoint ==
    /\ IsSome(last_applied)
    /\ Unwrap(last_applied).outcome = "applied"
    /\ IsSome(Unwrap(last_applied).message.data_point)
    /\ Unwrap(Unwrap(last_applied).message.data_point).value # <<"_platform_info">>

\* The ring of the monitor the last update was for, before that update.
RingBefore ==
    LET applied == Unwrap(last_applied)
        before == Unwrap(applied.before).monitor_data
    IN IF applied.message.module_id \in DOMAIN before
       THEN before[applied.message.module_id].values ELSE << >>

RingNow ==
    LET applied == Unwrap(last_applied)
    IN Unwrap(hosts[applied.message.host_name]).monitor_data[applied.message.module_id].values

\* C5: every ring of monitor_data holds between 1 and DATA_POINT_BUFFER_SIZE
\* points, the point applied last is at the back, and applying a point to a
\* full ring evicts exactly the oldest point.
C5_RingBuffer ==
    /\ \A h \in HostNames :
          IsSome(hosts[h]) =>
             \A id \in DOMAIN Unwrap(hosts[h]).monitor_data :
                LET values == Unwrap(hosts[h]).monitor_data[id].values
                IN 1 <= Len(values) /\ Len(values) <= DATA_POINT_BUFFER_SIZE
    /\ LastAppliedPoint =>
          LET data_point == Unwrap(Unwrap(last_applied).message.data_point) IN
          /\ RingNow[Len(RingNow)] = data_point
          /\ RingNow = IF Len(RingBefore) = DATA_POINT_BUFFER_SIZE
                       THEN Tail(RingBefore) \o <<data_point>>
                       ELSE RingBefore \o <<data_point>>

\* C5 witness: a point was applied to a full ring whose oldest point
\* differed from the others.
C5_Witness ==
    /\ LastAppliedPoint
    /\ Len(RingBefore) = DATA_POINT_BUFFER_SIZE
    /\ RingBefore[1] # RingBefore[2]
    /\ RingNow[1] = RingBefore[2]


(***************************************************************************)
(* Properties of the dispatchers (SpecDispatch, SpecCH).                   *)
(***************************************************************************)
StrictlyIncreasing(ids) == \A i, j \in 1..Len(ids) : i < j => ids[i] < ids[j]

\* C6: over any sequence of MonitorManager calls, every invocation id
\* attached to a dispatched request is positive and greater than every id
\* attached earlier, also within one refresh_host_monitors(None) call over
\* several hosts, and the ids a refresh call returns are strictly increasing.
C6_InvocationIdsNeverReused ==
    [][dispatched' # dispatched =>
          LET call == Unwrap(dispatched')
              ids == InvocationIds(call.sent)
          IN /\ \A i \in 1..Len(ids) : ids[i] > 0 /\ ids[i] > max_sent.mm
             /\ StrictlyIncreasing(ids)
             /\ StrictlyIncreasing(call.returned)]_vars

\* The step is an execute call that returned to its caller.
ExecuteReturned ==
    /\ calls' = calls + 1
    /\ IsSome(dispatched')
    /\ Unwrap(dispatched').op = "execute"
    /\ orch_state' = "running"

\* C7: an execute call whose message generation succeeds returns a positive
\* id greater than every id returned before; one whose message generation
\* fails with a non-empty error returns 0, leaves invocation_id_counter
\* unchanged, sends no ConnectorRequest and sends exactly one error state
\* update for that command.
C7_ExecuteIds ==
    [][ExecuteReturned =>
          LET call == Unwrap(dispatched')
              host_id == call.args[1]
              command_id == call.args[2]
              generated == get_command_connector_messages(command_id,
                                                          Unwrap(hosts[host_id]).platform)
          IN /\ Len(call.returned) = 1
             /\ generated.ok =>
                   /\ call.returned[1] > 0
                   /\ call.returned[1] > max_sent.ch
                   /\ InvocationIds(call.sent) = call.returned
             /\ (~generated.ok /\ generated.error # "") =>
                   /\ call.returned[1] = 0
                   /\ ch_counter' = ch_counter
                   /\ call.sent = << >>
                   /\ req_queue' = req_queue
                   /\ Len(upd_queue') = Len(upd_queue) + 1
                   /\ LET update == upd_queue'[Len(upd_queue')] IN
                      /\ SubSeq(upd_queue', 1, Len(upd_queue)) = upd_queue
                      /\ update.host_name = host_id
                      /\ update.module_id = command_id
                      /\ update.data_point = None
                      /\ update.command_result =
                            Some(CommandResult_new_error(generated.error))]_vars

\* C7 witness: an execute call returned id 1 after an earlier execute call
\* had failed and published its error update.
C7_Witness ==
    /\ IsSome(dispatched)
    /\ Unwrap(dispatched).op = "execute"
    /\ Unwrap(dispatched).returned = <<1>>
    /\ calls = 2
    /\ ch_counter = 1
    /\ \E key \in BagToSet(published) : key.module \in CommandIds /\ key.invocation_id = 0


(***************************************************************************)
(* Properties of the monitor chains (SpecMM).                              *)
(***************************************************************************)
RefreshOps == {"refresh_monitors_of_category", "refresh_monitors_by_id", "refresh_host_monitors"}

\* The worker served last a request of a monitor refresh and invoked its
\* handler.
ServedRefresh ==
    /\ IsSome(last_served)
    /\ Unwrap(last_served).request.response_handler.kind = "monitor"
    /\ Unwrap(last_served).request.response_handler.origin.op \in RefreshOps
    /\ Len(Unwrap(last_served).handler_calls) = 1

\* The stage of `monitor` succeeded: one Ok response that the module's
\* processing hook accepted.
StageSucceeded(monitor, results, parent_result) ==
    /\ Len(results) = 1
    /\ results[1].ok
    /\ process_response(monitor, results[1], parent_result).ok

\* The stage failed: an Err among the responses, or a processing error.
StageFailed(monitor, results, parent_result) ==
    \/ \E i \in 1..Len(results) : ~results[i].ok
    \/ /\ Len(results) = 1
       /\ ~process_response(monitor, results[1], parent_result).ok

WithId(data_point, invocation_id) == [data_point EXCEPT !.invocation_id = invocation_id]

\* The number of state updates published for `host` under `invocation_id`.
PublishedCount(host, invocation_id) ==
    LET keys == {key \in BagToSet(published) :
                    key.host = host /\ key.invocation_id = invocation_id}
    IN BagCardinality([key \in keys |-> published[key]])

\* C8: for a base monitor B with an extension E on the same host, a refresh
\* of B publishes a single data point equal to E's processing of B's
\* processed point and E's raw response, under the invocation id allocated
\* for B at both stages.
C8_ExtensionComposition ==
    ServedRefresh =>
        LET served == Unwrap(last_served)
            request == served.request
            handler == request.response_handler
            results == served.handler_calls[1]
            effect == served.effects[1]
        IN {"B", "E"} \subseteq handler.origin.configured =>
           /\ (request.source_id = "B" /\ StageSucceeded("B", results, handler.parent_result)) =>
                 /\ effect.upds = << >>
                 /\ Len(effect.reqs) = 1
                 /\ effect.reqs[1].source_id = "E"
                 /\ effect.reqs[1].response_handler.invocation_id = handler.invocation_id
                 /\ effect.reqs[1].response_handler.parent_result =
                       WithId(process_response("B", results[1], DataPoint_empty_and_critical).data_point,
                              handler.invocation_id)
           /\ (request.source_id = "E" /\ StageSucceeded("E", results, handler.parent_result)) =>
                 /\ effect.reqs = << >>
                 /\ Len(effect.upds) = 1
                 /\ effect.upds[1].data_point =
                       Some(WithId(process_response("E", results[1], handler.parent_result).data_point,
                                   handler.invocation_id))
                 /\ handler.parent_result.invocation_id = handler.invocation_id
                 /\ PublishedCount(request.host, handler.invocation_id) = 1

\* C9: when the base B of a chain [B, E] fails, no connector request is sent
\* for E, E's processing hook is not called, and the failure of the base is
\* published.
C9_ExtensionSkippedOnBaseFailure ==
    ServedRefresh =>
        LET served == Unwrap(last_served)
            request == served.request
            handler == request.response_handler
            results == served.handler_calls[1]
            effect == served.effects[1]
        IN (handler.modules = <<"B", "E">>
              /\ StageFailed("B", results, handler.parent_result)) =>
           /\ effect.reqs = << >>
           /\ "E" \notin Range(effect.hooks)
           /\ Len(effect.upds) = 1
           /\ effect.upds[1].host_name = request.host
           /\ IsSome(effect.upds[1].data_point)
           /\ Unwrap(effect.upds[1].data_point).invocation_id = handler.invocation_id

\* C10: once the worker has gone on from the last request of a monitor
\* refresh, exactly one state update with a data point of that refresh's
\* invocation id has been published, whether the connector succeeded,
\* failed to connect or returned errors.
C10_OneUpdatePerRefresh ==
    (/\ cm_state = "running"
     /\ IsSome(last_served)
     /\ Unwrap(last_served).request.response_handler.kind = "monitor"
     /\ Unwrap(last_served).request.response_handler.origin.op \in RefreshOps) =>
        LET request == Unwrap(last_served).request
            invocation_id == request.response_handler.invocation_id
            pending == \E i \in 1..Len(req_queue) :
                          /\ req_queue[i].host = request.host
                          /\ req_queue[i].response_handler.kind = "monitor"
                          /\ req_queue[i].response_handler.invocation_id = invocation_id
        IN PublishedCount(request.host, invocation_id) = IF pending THEN 0 ELSE 1

(***************************************************************************)
(* Platform info routing (SpecHM).                                         *)
(***************************************************************************)
\* The worker applied a platform info data point last.
LastAppliedPlatformInfo ==
    /\ IsSome(last_applied)
    /\ Unwrap(last_applied).outcome = "applied"
    /\ IsSome(Unwrap(last_applied).message.data_point)
    /\ Unwrap(Unwrap(last_applied).message.data_point).value = <<"_platform_info">>

\* C11: when the worker applies an update whose data point has the value
\* "_platform_info", only the platform of the host may change: monitor_data,
\* command_results and status stay as they were before the update, and the
\* point is not stored in monitor_data.
C11_PlatformInfoOnlyPlatform ==
    LastAppliedPlatformInfo =>
        LET applied == Unwrap(last_applied)
            before == Unwrap(applied.before)
            now == Unwrap(hosts[applied.message.host_name])
        IN /\ now.monitor_data = before.monitor_data
           /\ now.command_results = before.command_results
           /\ now.status = before.status
           /\ \A id \in DOMAIN now.monitor_data :
                 \A i \in 1..Len(now.monitor_data[id].values) :
                    now.monitor_data[id].values[i].value # <<"_platform_info">>

(***************************************************************************)
(* The HostManager with its observers (SpecObs).                           *)
(***************************************************************************)
MaxPending == 2         \* state updates waiting in the channel, in SpecObs
MaxSnapshots == 2       \* state updates sent while an observer is registered

\* The longest log of snapshots an observer holds.
LongestLog ==
    IF observers = << >> THEN 0
    ELSE CHOOSE n \in {Len(observers[i].received) : i \in 1..Len(observers)} :
            \A i \in 1..Len(observers) : Len(observers[i].received) <= n

\* The updates sent to a host with one monitor, and the exit token.
ObservedChoices ==
    {StateUpdateMessage("h1", "B", Some(DataPoint_new(<<"B">>, criticality)), None) :
        criticality \in {"Normal", "Critical"}}
    \cup {StateUpdateMessage_exit_token}

\* mpsc::Sender<StateUpdateMessage>::send by a holder of a sender.
SendObserved ==
    /\ Len(upd_queue) < MaxPending
    /\ Len(upd_queue) + LongestLog < MaxSnapshots
    /\ \E message \in ObservedChoices :
          upd_queue' = Send(upd_queue, <<message>>, hm_state)
    /\ UNCHANGED <<cm_vars, hosts, hm_state, observers, mm_vars, ch_vars, orch_state,
                   last_applied, next_rid, last_served, disp_vars, published>>

NextObs == AddHost \/ add_observer \/ DropObserver \/ SendObserved \/ HMApply
SpecObs == Init /\ [][NextObs]_vars

\* The worker takes a message from the channel in this step.
WorkerTakes ==
    /\ hm_state = "running"
    /\ upd_queue # << >>
    /\ upd_queue' = Tail(upd_queue)

\* The worker applies a state update to a registered host in this step.
WorkerApplies ==
    /\ WorkerTakes
    /\ ~Head(upd_queue).exit_thread
    /\ hosts[Head(upd_queue).host_name] # None

\* The snapshot of the update the worker applies in this step.
SnapshotOfStep ==
    LET message == Head(upd_queue) IN
    HostDisplayData(message.host_name, Unwrap(hosts'[message.host_name]), message)

\* C12: the worker applies the state updates in the order they were sent on
\* the channel (a send appends at the back, the worker takes the front), and
\* every open observer receives exactly one snapshot per applied update, the
\* snapshot of that update, at the end of what it received so far; no other
\* step gives an observer anything but the exit token.
C12_ObserversSeeSendOrder ==
    [][/\ upd_queue' # upd_queue =>
             \/ \E message \in ObservedChoices : upd_queue' = Append(upd_queue, message)
             \/ /\ WorkerTakes
                /\ IsSome(last_applied')
                /\ Unwrap(last_applied').message = Head(upd_queue)
       /\ WorkerApplies =>
             \A i \in 1..Len(observers) :
                observers[i].open =>
                   observers'[i].received = Append(observers[i].received, SnapshotOfStep)
       /\ ~WorkerTakes =>
             \A i \in 1..Len(observers) : observers'[i].received = observers[i].received
      ]_vars

\* The worker applies a monitor data point in this step.
WorkerAppliesPoint ==
    /\ WorkerApplies
    /\ IsSome(Head(upd_queue).data_point)
    /\ Unwrap(Head(upd_queue).data_point).value # <<"_platform_info">>

\* The host has one monitor, and that monitor is flagged is_critical.
OneCriticalMonitor(host_state) ==
    /\ Cardinality(DOMAIN host_state.monitor_data) = 1
    /\ \A id \in DOMAIN host_state.monitor_data : host_state.monitor_data[id].is_critical

\* C13: every snapshot an observer receives for a monitor data point has
\* new_monitoring_data holding exactly one value, the point just applied,
\* while monitoring_data holds the full ring of every monitor, the ring of
\* the point's monitor being the ring before with the point pushed; for a
\* host with one is_critical monitor the status in the snapshot is Down for
\* a Critical point and Up for any other, so that Normal, Critical, Normal
\* is seen as Up, Down, Up.
C13_SnapshotPerPoint ==
    [][WorkerAppliesPoint =>
          LET message == Head(upd_queue)
              point == Unwrap(message.data_point)
              id == message.module_id
              before == Unwrap(hosts[message.host_name]).monitor_data
              ring_before == IF id \in DOMAIN before THEN before[id].values ELSE << >>
              now == Unwrap(hosts'[message.host_name])
          IN \A i \in 1..Len(observers) :
                observers'[i].received # observers[i].received =>
                   LET snapshot == observers'[i].received[Len(observers'[i].received)] IN
                   /\ Len(observers'[i].received) = Len(observers[i].received) + 1
                   /\ IsSome(snapshot.new_monitoring_data)
                   /\ Unwrap(snapshot.new_monitoring_data).values = <<point>>
                   /\ snapshot.monitoring_data = now.monitor_data
                   /\ snapshot.monitoring_data[id].values
                         = IF Len(ring_before) < DATA_POINT_BUFFER_SIZE
                           THEN Append(ring_before, point)
                           ELSE Append(Tail(ring_before), point)
                   /\ \A other \in DOMAIN before \ {id} :
                         snapshot.monitoring_data[other] = before[other]
                   /\ ~snapshot.exit_thread
                   /\ OneCriticalMonitor(now) =>
                         snapshot.status = IF point.criticality = "Critical"
                                           THEN "Down" ELSE "Up"
      ]_vars

\* C13 witness: an observer of a host with one is_critical monitor, whose
\* ring held a Normal point already, received two snapshots, for a Critical
\* and a Normal point, with the statuses Down and Up, one new value in each
\* and a ring of three points in the last one.
C13_Witness ==
    \E i \in 1..Len(observers) :
        LET received == observers[i].received IN
        /\ Len(received) = 2
        /\ \A k \in 1..2 : IsSome(received[k].new_monitoring_data)
        /\ \A k \in 1..2 : Len(Unwrap(received[k].new_monitoring_data).values) = 1
        /\ [k \in 1..2 |-> Unwrap(received[k].new_monitoring_data).values[1].criticality]
              = <<"Critical", "Normal">>
        /\ [k \in 1..2 |-> received[k].status] = <<"Down", "Up">>
        /\ DOMAIN received[2].monitoring_data = {"B"}
        /\ received[2].monitoring_data["B"].is_critical
        /\ Len(received[2].monitoring_data["B"].values) = 3
        /\ received[2].monitoring_data["B"].values[1].criticality = "Normal"

(***************************************************************************)
(* The connector table (SpecCM).                                           *)
(***************************************************************************)
\* This step is a call add_connector(host, spec, inst) that returned.
AddConnectorReturned(host, spec, inst) ==
    /\ dispatched' # dispatched
    /\ IsSome(dispatched')
    /\ Unwrap(dispatched').op = "add_connector"
    /\ Unwrap(dispatched').args = <<host, spec, inst>>

\* C14: the connector table holds at most one connector per host name and
\* connector spec; a connector once in the table is never replaced by
\* another instance, by add_connector or by a served request; add_connector
\* for a pair that has a connector leaves the whole table, the connection
\* state of that connector included, as it was, and for a pair that has
\* none it inserts the new connector, disconnected.
C14_ConnectorSingleton ==
    [][\A host \in HostNames, spec \in ConnectorSpecs :
          /\ Len(connectors'[host][spec]) <= 1
          /\ IsSome(connectors[host][spec]) =>
                /\ IsSome(connectors'[host][spec])
                /\ Unwrap(connectors'[host][spec]).inst = Unwrap(connectors[host][spec]).inst
          /\ \A inst \in ConnectorInstances :
                AddConnectorReturned(host, spec, inst) =>
                   IF IsSome(connectors[host][spec])
                   THEN connectors' = connectors
                   ELSE connectors' = [connectors EXCEPT ![host][spec] =
                                          Some([inst |-> inst, connected |-> FALSE])]
      ]_vars

\* C14 witness: add_connector was called last with instance 2 for a pair
\* whose connector is instance 1, connected by a served request.
C14_Witness ==
    /\ IsSome(dispatched)
    /\ Unwrap(dispatched).op = "add_connector"
    /\ Unwrap(dispatched).args = <<"h1", "ssh", 2>>
    /\ connectors["h1"]["ssh"] = Some([inst |-> 1, connected |-> TRUE])
    /\ IsSome(last_served)
    /\ Unwrap(last_served).connect = "connected"

\* C15, in its safety form: the step in which a worker takes its exit token
\* ends that worker normally (so join() returns), the HostManager worker
\* having sent the exit token to every open observer in that step, and a
\* worker that ended sends nothing more, so the exit token is the last
\* message of an observer.
C15_ExitTokens ==
    [][/\ ( /\ cm_state = "running"
            /\ req_queue # << >>
            /\ Head(req_queue).request_type = "Exit"
            /\ req_queue' = Tail(req_queue) ) => cm_state' = "exited"
       /\ (WorkerTakes /\ Head(upd_queue).exit_thread) =>
             /\ hm_state' = "exited"
             /\ \A i \in 1..Len(observers) :
                   observers[i].open =>
                      observers'[i].received
                         = Append(observers[i].received, HostDisplayData_exit_token)
       /\ hm_state # "running" =>
             \A i \in 1..Len(observers) : observers'[i].received = observers[i].received
      ]_vars

(***************************************************************************)
(* Registration of hosts (SpecHM).                                         *)
(***************************************************************************)
\* This step is a call add_host(host) that returned.
AddHostReturned(host) ==
    /\ dispatched' # dispatched
    /\ IsSome(dispatched')
    /\ Unwrap(dispatched').op = "add_host"
    /\ Unwrap(dispatched').args = <<host>>

\* C16: add_host with a name not yet registered stores the host with status
\* Pending and empty monitor_data and command_results and returns Ok;
\* add_host with a registered name returns an error and leaves the state of
\* every host, the registered one included, unchanged.
C16_AddHost ==
    [][\A host \in HostNames :
          AddHostReturned(host) =>
             IF hosts[host] = None
             THEN /\ Unwrap(dispatched').returned = <<"Ok">>
                  /\ IsSome(hosts'[host])
                  /\ Unwrap(hosts'[host]).status = "Pending"
                  /\ Unwrap(hosts'[host]).monitor_data = << >>
                  /\ Unwrap(hosts'[host]).command_results = << >>
                  /\ \A other \in HostNames \ {host} : hosts'[other] = hosts[other]
             ELSE /\ Unwrap(dispatched').returned = <<"Err">>
                  /\ hosts' = hosts
      ]_vars

\* C16 witness: add_host was refused for h1, which is Down with monitor
\* data, a command result and platform info of its own.
C16_Witness ==
    /\ IsSome(dispatched)
    /\ Unwrap(dispatched).op = "add_host"
    /\ Unwrap(dispatched).args = <<"h1">>
    /\ Unwrap(dispatched).returned = <<"Err">>
    /\ IsSome(hosts["h1"])
    /\ LET host_state == Unwrap(hosts["h1"]) IN
       /\ host_state.status = "Down"
       /\ host_state.monitor_data # << >>
       /\ host_state.command_results # << >>
       /\ host_state.platform # PlatformInfo_default

(***************************************************************************)
(* Properties of the file flows of the CommandHandler (SpecEdit).          *)
(***************************************************************************)
\* The worker dequeued last a request that a dispatcher operation sent, or
\* that a handler of such a request chained.
ServedDispatched ==
    /\ IsSome(last_served)
    /\ Unwrap(last_served).request.response_handler.origin.op \notin {"client", "exit"}

\* The local editor was run for the request served last, and failed: the
\* handler recorded the run and went no further.
EditorLaunchFailed(served) ==
    /\ served.request.response_handler.kind = "editor"
    /\ Len(served.effects) = 1
    /\ served.effects[1].hooks # << >>
    /\ served.effects[1].reqs = << >>

\* The request served last failed at some stage: connect, a connector
\* message, or the launch of the local editor.
ServedFailed(served) ==
    \/ served.connect = "failed"
    \/ \E i \in 1..Len(served.raw) : ~served.raw[i].ok
    \/ EditorLaunchFailed(served)

\* C17: when a request of a dispatched operation fails at some stage, the
\* serving of that request sends at least one state update reporting the
\* outcome, or hands the outcome on to the next request of its chain.
C17_FailuresPublished ==
    (ServedDispatched /\ ServedFailed(Unwrap(last_served))) =>
        \E k \in 1..Len(Unwrap(last_served).effects) :
            \/ Unwrap(last_served).effects[k].upds # << >>
            \/ Unwrap(last_served).effects[k].reqs # << >>

\* This step is a call of open_external_text_editor that returned.
EditorCallReturned ==
    /\ dispatched' # dispatched
    /\ IsSome(dispatched')
    /\ Unwrap(dispatched').op = "open_external_text_editor"
    /\ orch_state' = "running"

\* In this step the worker dequeued the Download request of an editor flow.
EditorDownloadServed ==
    /\ last_served' # last_served
    /\ IsSome(last_served')
    /\ Unwrap(last_served').request.response_handler.kind = "editor"

\* The Upload requests of `queue`.
Uploads(queue) == {queue[i] : i \in {j \in 1..Len(queue) : queue[j].request_type = "Upload"}}

\* The download of the request served failed: no connection, or an Err as
\* the response the handler looks at.
DownloadFailed(served) ==
    \/ served.connect = "failed"
    \/ /\ Len(served.handler_calls) = 1
       /\ served.handler_calls[1] # << >>
       /\ ~served.handler_calls[1][1].ok

\* C19: open_external_text_editor sends one Download request and nothing
\* else; the editor is run only by the handler of that request, on the
\* local file of a successful download, and an Upload request of that file
\* is sent only in the step that ran the editor; when the download failed
\* the editor is not run, no Upload request is sent and a failure
\* CommandResult is published for the command.
C19_EditorFlowOrder ==
    [][/\ EditorCallReturned =>
             LET sent == Unwrap(dispatched').sent IN
             /\ Len(sent) = 1
             /\ sent[1].request_type = "Download"
             /\ req_queue' = IF cm_state = "running" THEN Append(req_queue, sent[1])
                             ELSE req_queue
       /\ Uploads(req_queue') \ Uploads(req_queue) # {} =>
             /\ EditorDownloadServed
             /\ ~DownloadFailed(Unwrap(last_served'))
             /\ Len(Unwrap(last_served').effects) = 1
             /\ Unwrap(last_served').effects[1].hooks
                   = <<"text_editor " \o Unwrap(last_served').handler_calls[1][1].message>>
             /\ Uploads(req_queue') \ Uploads(req_queue)
                   = {Unwrap(last_served').effects[1].reqs[1]}
             /\ Unwrap(last_served').effects[1].reqs[1].messages
                   = <<Unwrap(last_served').handler_calls[1][1].message>>
       /\ (EditorDownloadServed /\ DownloadFailed(Unwrap(last_served'))) =>
             LET served == Unwrap(last_served') IN
             /\ Uploads(req_queue') \subseteq Uploads(req_queue)
             /\ Len(served.effects) = 1
             /\ served.effects[1].hooks = << >>
             /\ Len(served.effects[1].upds) = 1
             /\ served.effects[1].upds[1].host_name = served.request.host
             /\ served.effects[1].upds[1].module_id = served.request.source_id
             /\ IsSome(served.effects[1].upds[1].command_result)
             /\ Unwrap(served.effects[1].upds[1].command_result).criticality
                   \in {"Error", "Critical"}
      ]_vars

(***************************************************************************)
(* Monitor refreshes applied by the HostManager (SpecStatus).              *)
(***************************************************************************)
NextStatus == NextMM \/ HMApply
SpecStatus == Init /\ [][NextStatus]_vars

\* The update the worker applies in this step is the one the request served
\* last published for the refresh of a monitor flagged is_critical, and that
\* request met a connector I/O failure: an Err among its responses.
AppliesAfterIoFailure ==
    /\ WorkerApplies
    /\ IsSome(last_served)
    /\ Unwrap(last_served).request.response_handler.kind = "monitor"
    /\ Unwrap(last_served).request.response_handler.origin.op \in RefreshOps
    /\ Len(Unwrap(last_served).effects) = 1
    /\ Unwrap(last_served).effects[1].upds = <<Head(upd_queue)>>
    /\ Unwrap(hosts'[Head(upd_queue).host_name]).monitor_data[Head(upd_queue).module_id].is_critical
    /\ \E i \in 1..Len(Unwrap(last_served).handler_calls[1]) :
          ~Unwrap(last_served).handler_calls[1][i].ok

\* C18: a connector I/O failure during the refresh of a monitor flagged
\* is_critical does not change the status of the host: a request whose connect failed publishes
\* nothing, and applying the update published by a request that had an Err
\* response leaves the status as it was.
C18_IoFailureKeepsStatus ==
    [][/\ AppliesAfterIoFailure =>
             Unwrap(hosts'[Head(upd_queue).host_name]).status
                = Unwrap(hosts[Head(upd_queue).host_name]).status
       /\ ( /\ last_served' # last_served
            /\ IsSome(last_served')
            /\ Unwrap(last_served').connect = "failed" ) =>
             /\ upd_queue' = upd_queue
             /\ hosts' = hosts
      ]_vars

(***************************************************************************)
(* Connector sessions (SpecCM).                                            *)
(***************************************************************************)
\* In this step the worker dequeued a request for a connector of the table.
ConnectorRequestServed ==
    /\ last_served' # last_served
    /\ IsSome(last_served')
    /\ IsSome(Unwrap(last_served').request.connector_spec)
    /\ IsSome(connectors[Unwrap(last_served').request.host]
                        [Unwrap(Unwrap(last_served').request.connector_spec)])

\* C20: connect() is called for a request only when the connector is
\* disconnected: a request to a connected connector reuses the session and
\* leaves it connected; a request to a disconnected one calls connect(),
\* and when that fails the connector stays in the table, disconnected, so
\* that the next request to it calls connect() again.
C20_SessionReuse ==
    [][ConnectorRequestServed =>
          LET served == Unwrap(last_served')
              host == served.request.host
              spec == Unwrap(served.request.connector_spec)
              before == Unwrap(connectors[host][spec])
          IN /\ IsSome(connectors'[host][spec])
             /\ Unwrap(connectors'[host][spec]).inst = before.inst
             /\ before.connected =>
                   /\ served.connect = "reused"
                   /\ Unwrap(connectors'[host][spec]).connected
             /\ ~before.connected =>
                   /\ served.connect \in {"connected", "failed"}
                   /\ Unwrap(connectors'[host][spec]).connected
                         <=> served.connect = "connected"
      ]_vars

\* C20 witness: the second request to the connector of h1 was served on
\* the session the first request opened.
C20_Witness ==
    /\ IsSome(last_served)
    /\ Unwrap(last_served).request.rid = 2
    /\ Unwrap(last_served).connect = "reused"
    /\ Unwrap(last_served).attempted # << >>
    /\ connectors["h1"]["ssh"] # None
    /\ Unwrap(connectors["h1"]["ssh"]).connected

(***************************************************************************)
(* Per-message failures in the message loop (SpecCM).                      *)
(***************************************************************************)
\* The position of the first connector answer that is an Err, 0 if there
\* is none.
FirstErr(raw) ==
    LET failing == {k \in 1..Len(raw) : ~raw[k].ok}
    IN IF failing = {} THEN 0 ELSE CHOOSE k \in failing : \A j \in failing : k <= j

\* C21: in a Command request on a connected connector, if m_k is the first
\* message that send_message answers with an Err (no earlier message having
\* ended the loop with a non-zero return code), the k-th entry of the
\* response list is that Err and send_message was called for m_1..m_k only.
C21_CommandStopsAtErr ==
    IsSome(last_served) =>
        LET served == Unwrap(last_served)
            k == FirstErr(served.raw)
        IN (served.request.request_type = "Command"
              /\ served.connect \in {"connected", "reused"}
              /\ k > 0
              /\ (FirstNonZero(served.raw) = 0 \/ FirstNonZero(served.raw) > k)) =>
           /\ Len(served.handler_calls) = 1
           /\ Len(served.handler_calls[1]) >= k
           /\ served.handler_calls[1][k] = served.raw[k]
           /\ served.attempted = SubSeq(served.request.messages, 1, k)

\* C22: in a Download or Upload request on a connected connector every
\* message is attempted, whatever the earlier ones gave, and the response
\* list handed to the handler has one entry per message, in the order of
\* the messages, the entry of a message being the Ok or Err that message
\* itself was answered with.
C22_TransfersIndependent ==
    IsSome(last_served) =>
        LET served == Unwrap(last_served) IN
        (served.request.request_type \in {"Download", "Upload"}
           /\ served.connect \in {"connected", "reused"}) =>
           /\ served.attempted = served.request.messages
           /\ Len(served.handler_calls) = 1
           /\ Len(served.handler_calls[1]) = Len(served.request.messages)
           /\ \A i \in 1..Len(served.request.messages) :
                 /\ served.handler_calls[1][i].of = served.request.messages[i]
                 /\ served.handler_calls[1][i] = served.raw[i]

\* C22 witness: a Download request of two messages was served, the first
\* answered Err, the second Ok.
C22_Witness ==
    /\ IsSome(last_served)
    /\ Unwrap(last_served).request.request_type = "Download"
    /\ Len(Unwrap(last_served).request.messages) = 2
    /\ Len(Unwrap(last_served).handler_calls) = 1
    /\ Len(Unwrap(last_served).handler_calls[1]) = 2
    /\ [i \in 1..2 |-> Unwrap(last_served).handler_calls[1][i].ok] = <<FALSE, TRUE>>

\* The step in which the worker serves a request that names no connector.
ServesConnectorless ==
    /\ last_served' # last_served
    /\ IsSome(last_served')
    /\ Unwrap(last_served').request.connector_spec = None

\* C23: a request whose connector spec is None is answered by one call of
\* its handler with an empty result vector; nothing is sent, no connect is
\* made, and no connector of the table changes.
C23_ConnectorlessRequest ==
    [][ServesConnectorless =>
          LET served == Unwrap(last_served') IN
          /\ served.handler_calls = << << >> >>
          /\ served.attempted = << >>
          /\ served.raw = << >>
          /\ served.connect = "none"
          /\ connectors' = connectors]_vars

\* C23 witness: a connectorless request with messages was served for a host
\* whose ssh connector is in the table and has no session.
C23_Witness ==
    /\ IsSome(last_served)
    /\ Unwrap(last_served).request.connector_spec = None
    /\ Unwrap(last_served).request.messages # << >>
    /\ Unwrap(last_served).handler_calls = << << >> >>
    /\ \E inst \in ConnectorInstances :
          connectors[Unwrap(last_served).request.host]["ssh"] = Some(Connector(inst))

(***************************************************************************)
(* Updates the worker cannot deliver (SpecHM, SpecObs).                    *)
(***************************************************************************)
\* The worker takes a state update naming a host that is not registered.
WorkerTakesUnknownHost ==
    /\ WorkerTakes
    /\ ~Head(upd_queue).exit_thread
    /\ hosts[Head(upd_queue).host_name] = None

\* C24: a state update naming an unregistered host is dropped: no host state
\* changes, no observer receives anything for it, and the worker is still
\* running afterwards, ready for the updates that follow.
C24_UnknownHostDropped ==
    [][WorkerTakesUnknownHost =>
          /\ hosts' = hosts
          /\ observers' = observers
          /\ hm_state' = "running"]_vars

\* Some observer's receiver was dropped.
SomeObserverClosed == \E i \in 1..Len(observers) : ~observers[i].open

\* What the worker fans out in this step: the exit token, or the snapshot of
\* the update it applies.
FannedOut ==
    IF Head(upd_queue).exit_thread THEN HostDisplayData_exit_token ELSE SnapshotOfStep

\* C25: a failed send to an observer whose receiver was dropped does not stop
\* the worker: the update is applied, every observer that is still open
\* receives the snapshot (or the exit token), and the worker goes on running
\* unless it was told to exit.
C25_ClosedObserverTolerated ==
    [][(WorkerTakes /\ SomeObserverClosed
          /\ (Head(upd_queue).exit_thread \/ hosts[Head(upd_queue).host_name] # None)) =>
          /\ IsSome(last_applied')
          /\ Unwrap(last_applied').outcome = (IF Head(upd_queue).exit_thread THEN "exit" ELSE "applied")
          /\ \A i \in 1..Len(observers) :
                observers[i].open =>
                   observers'[i].received = Append(observers[i].received, FannedOut)
          /\ hm_state' = (IF Head(upd_queue).exit_thread THEN "exited" ELSE "running")]_vars

(***************************************************************************)
(* Command results in the host state and in the snapshots (SpecRes).       *)
(***************************************************************************)
\* The updates sent to h1: results of the commands logs and multi, and a
\* data point of monitor B.
ResultChoices ==
    {StateUpdateMessage("h1", command, None, Some(CommandResult_new(message, "Normal"))) :
        command \in {"logs"}, message \in {"first", "second"}}
    \cup {StateUpdateMessage("h1", "multi", None, Some(CommandResult_new_error("failed")))}
    \cup {StateUpdateMessage("h1", "B", Some(DataPoint_new(<<"B">>, "Normal")), None)}

\* mpsc::Sender<StateUpdateMessage>::send by a holder of a sender.
SendResult ==
    /\ Len(upd_queue) < MaxQueue
    /\ Len(upd_queue) + LongestLog < MaxSnapshots
    /\ \E message \in ResultChoices :
          upd_queue' = Send(upd_queue, <<message>>, hm_state)
    /\ UNCHANGED <<cm_vars, hosts, hm_state, observers, mm_vars, ch_vars, orch_state,
                   last_applied, next_rid, last_served, disp_vars, published>>

NextRes == AddHost \/ add_observer \/ SendResult \/ HMApply
SpecRes == Init /\ [][NextRes]_vars

\* The worker applies an update that carries a command result and no data
\* point.
WorkerAppliesResult ==
    /\ WorkerApplies
    /\ ~IsSome(Head(upd_queue).data_point)
    /\ IsSome(Head(upd_queue).command_result)

\* C26: applying an update that carries a CommandResult puts the result at
\* command_results[module id] of the host, in place of what was there and
\* with the results of the other commands kept; the snapshot every observer
\* receives has that result as new_command_results and the new map as
\* command_results; monitor_data and platform of the host stay as they were.
C26_CommandResultApplied ==
    [][WorkerAppliesResult =>
          LET message == Head(upd_queue)
              result == Unwrap(message.command_result)
              before == Unwrap(hosts[message.host_name])
              after == Unwrap(hosts'[message.host_name])
          IN /\ DOMAIN after.command_results
                   = DOMAIN before.command_results \cup {message.module_id}
             /\ after.command_results[message.module_id] = result
             /\ \A c \in DOMAIN before.command_results :
                   c # message.module_id => after.command_results[c] = before.command_results[c]
             /\ after.monitor_data = before.monitor_data
             /\ after.platform = before.platform
             /\ \A i \in 1..Len(observers) :
                   /\ Len(observers'[i].received) = Len(observers[i].received) + 1
                   /\ LET data == observers'[i].received[Len(observers'[i].received)]
                      IN /\ data.new_command_results = Some(result)
                         /\ data.new_monitoring_data = None
                         /\ data.command_results = after.command_results
                         /\ data.monitoring_data = before.monitor_data]_vars

\* C26 witness: a result of logs took the place of another one while the
\* host had data of monitor B, and an observer received it.
C26_Witness ==
    /\ IsSome(last_applied)
    /\ Unwrap(last_applied).outcome = "applied"
    /\ Unwrap(last_applied).message.module_id = "logs"
    /\ IsSome(Unwrap(last_applied).before)
    /\ LET before == Unwrap(Unwrap(last_applied).before)
           result == Unwrap(Unwrap(last_applied).message.command_result)
       IN /\ "logs" \in DOMAIN before.command_results
          /\ before.command_results["logs"] # result
          /\ "B" \in DOMAIN before.monitor_data
          /\ Unwrap(hosts["h1"]).command_results["logs"] = result
          /\ observers # << >>
          /\ observers[1].received # << >>
          /\ observers[1].received[Len(observers[1].received)].new_command_results = Some(result)

(***************************************************************************)
(* Extension chains (SpecMM, SpecStatus).                                  *)
(***************************************************************************)
\* A request enters the ConnectionManager's channel in this step.
NewRequest(request) ==
    /\ \E k \in 1..Len(req_queue') : req_queue'[k] = request
    /\ request.rid > next_rid

AppliesChainEnd ==
    /\ WorkerApplies
    /\ IsSome(last_served)
    /\ Unwrap(last_served).request.response_handler.kind = "monitor"
    /\ Unwrap(last_served).request.response_handler.origin.op \in RefreshOps
    /\ Unwrap(last_served).request.response_handler.modules = <<"E">>
    /\ Len(Unwrap(last_served).effects) = 1
    /\ Unwrap(last_served).effects[1].upds = <<Head(upd_queue)>>

\* C28: the data point published at the end of a chain [B, E] is stored
\* under the id of the base monitor B, at the end of B's ring, and applying
\* it neither creates nor changes a monitor_data entry keyed by E.
C28_ChainStoredUnderBase ==
    [][AppliesChainEnd =>
          LET message == Head(upd_queue)
              before == Unwrap(hosts[message.host_name])
              after == Unwrap(hosts'[message.host_name])
          IN /\ message.module_id = "B"
             /\ "B" \in DOMAIN after.monitor_data
             /\ after.monitor_data["B"].values[Len(after.monitor_data["B"].values)]
                   = Unwrap(message.data_point)
             /\ "E" \in DOMAIN after.monitor_data =>
                   /\ "E" \in DOMAIN before.monitor_data
                   /\ after.monitor_data["E"] = before.monitor_data["E"]]_vars

\* The module's processing of the responses returned an error: every
\* response is Ok and the hook the handler calls for them rejects them.
ProcessingFailed(monitor, results, parent_result) ==
    /\ \A i \in 1..Len(results) : results[i].ok
    /\ ~(IF Len(results) > 1 THEN process_responses(monitor, results, parent_result)
         ELSE IF Len(results) = 1 THEN process_response(monitor, results[1], parent_result)
         ELSE process_response(monitor, ResponseMessage_empty, parent_result)).ok

\* C29: when the processing hook of a stage returns an error, what the
\* stage carries forward is its parent_result with only invocation_id set
\* to the request's invocation id: it is the parent_result of the next
\* stage's request if the chain goes on, and the published data point if
\* the chain ends here.
C29_ProcessingErrorKeepsParent ==
    (IsSome(last_served)
       /\ Unwrap(last_served).request.response_handler.kind = "monitor"
       /\ Len(Unwrap(last_served).handler_calls) = 1) =>
        LET served == Unwrap(last_served)
            handler == served.request.response_handler
            results == served.handler_calls[1]
            effect == served.effects[1]
            carried == WithId(handler.parent_result, handler.invocation_id)
        IN ProcessingFailed(Head(handler.modules), results, handler.parent_result) =>
              IF Len(handler.modules) > 1
              THEN /\ effect.upds = << >>
                   /\ Len(effect.reqs) = 1
                   /\ effect.reqs[1].response_handler.parent_result = carried
              ELSE /\ effect.reqs = << >>
                   /\ Len(effect.upds) = 1
                   /\ effect.upds[1].data_point = Some(carried)

\* C29 witness: E's processing failed on B's processed point, and that
\* point was published.
C29_Witness ==
    /\ IsSome(last_served)
    /\ Unwrap(last_served).request.response_handler.kind = "monitor"
    /\ Unwrap(last_served).request.response_handler.modules = <<"E">>
    /\ Len(Unwrap(last_served).handler_calls) = 1
    /\ ProcessingFailed("E", Unwrap(last_served).handler_calls[1],
                        Unwrap(last_served).request.response_handler.parent_result)
    /\ Unwrap(last_served).request.response_handler.parent_result.value = <<"B", "ok">>
    /\ Len(Unwrap(last_served).effects) = 1
    /\ Len(Unwrap(last_served).effects[1].upds) = 1
    /\ Unwrap(last_served).effects[1].upds[1].data_point
          = Some(Unwrap(last_served).request.response_handler.parent_result)

(***************************************************************************)
(* The Pending status (SpecHM).                                            *)
(***************************************************************************)
\* C30: a registered host for which no monitor has reported a data point
\* has the status Pending: command results and platform info points do not
\* move it to Up.
C30_PendingUntilMonitorReports ==
    \A h \in HostNames :
        (IsSome(hosts[h]) /\ DOMAIN Unwrap(hosts[h]).monitor_data = {}) =>
            Unwrap(hosts[h]).status = "Pending"

(***************************************************************************)
(* Sends on a channel whose receiver is gone (SpecFile).                   *)
(***************************************************************************)
\* In this step the ConnectionManager worker invoked a response handler
\* with a non-empty response list while the HostManager worker was gone; a
\* download handler that has to read the file back is left out, its
\* read_file being a failure of its own.
HandlerRunsWithoutHostManager ==
    /\ last_served' # last_served
    /\ IsSome(last_served')
    /\ hm_state # "running"
    /\ Len(Unwrap(last_served').handler_calls) = 1
    /\ Unwrap(last_served').handler_calls[1] # << >>
    /\ LaunchOutcomes(Unwrap(last_served').request, Unwrap(last_served').handler_calls[1])
          # {"read", "read_err"}

\* In this step download_file or open_external_text_editor was called for a
\* registered host, a configured command and a platform the command has
\* messages for, while the ConnectionManager worker was gone.
DispatchWithoutConnectionManager ==
    /\ dispatched' # dispatched
    /\ IsSome(dispatched')
    /\ Unwrap(dispatched').op \in {"download_file", "open_external_text_editor"}
    /\ cm_state # "running"
    /\ LET host_id == Unwrap(dispatched').args[1]
           command_id == Unwrap(dispatched').args[2]
       IN /\ ~get_host_panics(host_id)
          /\ command_id \in commands[host_id]
          /\ get_command_connector_messages(command_id, Unwrap(hosts[host_id]).platform).ok

\* C31: a failed channel send is swallowed: a response handler that runs
\* after the HostManager worker terminated leaves the ConnectionManager
\* worker running, and a dispatcher call made after the ConnectionManager
\* worker terminated returns normally.
C31_SendFailuresSwallowed ==
    [][/\ HandlerRunsWithoutHostManager => cm_state' = "running"
       /\ DispatchWithoutConnectionManager => orch_state' = "running"]_vars

\* The handler half of C31 for every handler but the upload handler.
C31_OtherHandlersSwallow ==
    [][(HandlerRunsWithoutHostManager
          /\ Unwrap(last_served').request.response_handler.kind # "upload")
          => cm_state' = "running"]_vars

(***************************************************************************)
(* The shutdown of the ConnectionManager worker (SpecCM).                  *)
(***************************************************************************)
\* The worker takes the Exit token in this step.
WorkerTakesExit ==
    /\ cm_state = "running"
    /\ req_queue # << >>
    /\ Head(req_queue).request_type = "Exit"
    /\ req_queue' = Tail(req_queue)

\* C32: the worker serves the requests in the order they were enqueued (a
\* send appends at the back, the worker takes the front), invokes the
\* handler of every request it takes before the Exit token, returns when it
\* takes the Exit token, and serves nothing once it has returned, so that
\* no handler of a request enqueued behind the Exit token is invoked.
C32_DrainsBeforeExit ==
    [][/\ last_served' # last_served =>
             /\ cm_state = "running"
             /\ req_queue # << >>
             /\ Head(req_queue).request_type # "Exit"
             /\ IsSome(last_served')
             /\ Unwrap(last_served').request = Head(req_queue)
             /\ Len(Unwrap(last_served').handler_calls) = 1
       /\ (req_queue' # req_queue /\ last_served' = last_served /\ ~WorkerTakesExit) =>
             \E k \in 1..Len(req_queue') :
                /\ k = Len(req_queue) + 1
                /\ SubSeq(req_queue', 1, Len(req_queue)) = req_queue
       /\ WorkerTakesExit => cm_state' = "exited"
       /\ cm_state # "running" => (last_served' = last_served /\ req_queue' = req_queue)
      ]_vars

(***************************************************************************)
(* The response handler of an executed command (SpecCH).                   *)
(***************************************************************************)
\* The result the handler of `command` computes from the Ok responses.
CommandProcessing(command, responses) ==
    LET first_result == command_process_responses(command, responses) IN
    IF ~first_result.ok /\ first_result.error = ""
    THEN command_process_response(command, responses[1])
    ELSE first_result

\* C33: every call of the response handler of an executed command sends
\* exactly one state update, for the command's host and id, and no request.
\* When the processing of the Ok responses succeeds, the update holds the
\* CommandResult with the invocation id of the execute call and the
\* command's id.  When every response is an Err, or there is no response,
\* the update holds no result and a non-empty list of errors.
C33_OneUpdatePerCommand ==
    (IsSome(last_served)
       /\ Unwrap(last_served).request.response_handler.kind = "command"
       /\ Len(Unwrap(last_served).handler_calls) = 1) =>
        LET served == Unwrap(last_served)
            handler == served.request.response_handler
            command == served.request.source_id
            results == served.handler_calls[1]
            responses == SelectSeq(results, IsOk)
        IN /\ Len(served.effects) = 1
           /\ served.effects[1].reqs = << >>
           /\ Len(served.effects[1].upds) = 1
           /\ LET update == served.effects[1].upds[1] IN
              /\ update.host_name = served.request.host
              /\ update.module_id = command
              /\ update.data_point = None
              /\ ~update.exit_thread
              /\ handler.invocation_id > 0
              /\ (responses # << >> /\ CommandProcessing(command, responses).ok) =>
                    /\ IsSome(update.command_result)
                    /\ Unwrap(update.command_result).invocation_id = handler.invocation_id
                    /\ Unwrap(update.command_result).command_id = command
                    /\ Unwrap(update.command_result).message
                          = CommandProcessing(command, responses).command_result.message
              /\ responses = << >> =>
                    /\ update.command_result = None
                    /\ update.errors # << >>

\* C33 witness: both messages of the command multi were answered with Err,
\* and the handler sent an update with two connector errors and the error
\* of the missing responses.
C33_Witness ==
    /\ IsSome(last_served)
    /\ Unwrap(last_served).request.response_handler.kind = "command"
    /\ Unwrap(last_served).request.source_id = "multi"
    /\ Unwrap(last_served).handler_calls # << >>
    /\ Len(Unwrap(last_served).handler_calls[1]) = 2
    /\ \A i \in 1..2 : ~Unwrap(last_served).handler_calls[1][i].ok
    /\ Len(Unwrap(last_served).effects) = 1
    /\ Len(Unwrap(last_served).effects[1].upds) = 1
    /\ Len(Unwrap(last_served).effects[1].upds[1].errors) = 3
    /\ Unwrap(last_served).effects[1].upds[1].command_result = None

(***************************************************************************)
(* C34                                                                     *)
(***************************************************************************)

\* The worker takes a request whose host and connector spec have no
\* connector in the table.
WorkerTakesUnconnected ==
    /\ cm_state = "running"
    /\ req_queue # << >>
    /\ Head(req_queue).request_type # "Exit"
    /\ IsSome(Head(req_queue).connector_spec)
    /\ connectors[Head(req_queue).host][Unwrap(Head(req_queue).connector_spec)] = None
    /\ req_queue' = Tail(req_queue)

\* C34: a request for a host and connector spec with no connector in the
\* table does not stop the ConnectionManager worker: the worker is still
\* running after the request, and the request was either served over a newly
\* established connector or answered through its handler.
C34_MissingConnectorServed ==
    [][WorkerTakesUnconnected =>
          /\ cm_state' = "running"
          /\ \/ connectors'[Head(req_queue).host][Unwrap(Head(req_queue).connector_spec)] # None
             \/ Unwrap(last_served').handler_calls # << >>]_vars

(***************************************************************************)
(* C35: add_monitor against the two workers.  The two sends of add_monitor  *)
(* are separate steps of the orchestrator thread, so that the workers can   *)
(* run between them.                                                        *)
(***************************************************************************)

\* MonitorManager::add_monitor up to the send on the request channel: an
\* independent monitor gets its first request here.
add_monitor_send_request(host, monitor) ==
    /\ orch_state = "running"
    /\ monitor \notin monitors[host]
    /\ LET independent == monitor_connector_spec(monitor) = None
           invocation_id == mm_counter + 1
           request == ConnectorRequest(next_rid + 1, None, monitor, host, << >>, "Command",
                          Handler("monitor", <<monitor>>, invocation_id,
                                  DataPoint_empty_and_critical,
                                  Origin("add_monitor", monitors[host] \cup {monitor})))
       IN /\ mm_counter' = IF independent THEN invocation_id ELSE mm_counter
          /\ req_queue' = IF independent THEN Send(req_queue, <<request>>, cm_state) ELSE req_queue
          /\ next_rid' = IF independent THEN next_rid + 1 ELSE next_rid
          /\ RecordMM("add_monitor", <<host, monitor>>, << >>, IF independent THEN <<request>> ELSE << >>, FALSE)
    /\ orch_state' = "in_add_monitor"
    /\ UNCHANGED <<connectors, cm_state, hm_vars, monitors, ch_vars,
                   last_applied, last_served, published>>

\* The rest of add_monitor: the NoData seed is sent on the state-update
\* channel and the monitor is inserted.
add_monitor_send_seed ==
    /\ orch_state = "in_add_monitor"
    /\ LET host == Unwrap(dispatched).args[1]
           monitor == Unwrap(dispatched).args[2]
           seed == send_state_update(host, monitor, DataPoint_no_data)
       IN /\ upd_queue' = Send(upd_queue, <<seed>>, hm_state)
          /\ published' = Publish(<<seed>>)
          /\ monitors' = [monitors EXCEPT ![host] = @ \cup {monitor}]
    /\ orch_state' = "running"
    /\ UNCHANGED <<connectors, req_queue, cm_state, hosts, hm_state, observers, mm_counter,
                   ch_vars, last_applied, next_rid, last_served, disp_vars>>

AddMonitorSendRequest == \E monitor \in MonitorIds : add_monitor_send_request("h1", monitor)

NextSeed ==
    \/ MMAddHost \/ MMAddConnector \/ AddMonitorSendRequest \/ add_monitor_send_seed
    \/ (calls < MaxServedCalls /\ Refresh) \/ CMServe \/ HMApply
SpecSeed == Init /\ [][NextSeed]_vars

\* The ring of the independent monitor "I" on host h1, empty while the host
\* state holds no point of it.
IndependentRing ==
    IF IsSome(hosts["h1"]) /\ "I" \in DOMAIN Unwrap(hosts["h1"]).monitor_data
    THEN Unwrap(hosts["h1"]).monitor_data["I"].values
    ELSE << >>

\* C35: the NoData seed of an independent monitor is applied before the
\* monitor's first real result: the first point of its ring is the seed, and
\* once the seed and the first result are both applied the latest point is
\* a real result and not NoData.
C35_SeedBeforeFirstResult ==
    /\ IndependentRing # << >> => IndependentRing[1].criticality = "NoData"
    /\ Len(IndependentRing) >= 2 => IndependentRing[Len(IndependentRing)].criticality # "NoData"

(***************************************************************************)
(* C36: two refreshes of the chain B, E served by both workers.            *)
(***************************************************************************)
AddChainMonitor == \E monitor \in {"B", "E"} : add_monitor("h1", monitor)

RefreshChain ==
    \/ refresh_monitors_of_category("h1", "docker")
    \/ refresh_monitors_by_id("h1", "B")

NextOrder == MMAddHost \/ MMAddConnector \/ AddChainMonitor \/ RefreshChain \/ CMServe \/ HMApply
SpecOrder == Init /\ [][NextOrder]_vars

\* The invocation ids of the points of a ring that a refresh produced (the
\* NoData seed of add_monitor carries id 0).
RefreshIds(values) ==
    LET ids == [i \in 1..Len(values) |-> values[i].invocation_id]
    IN SelectSeq(ids, LAMBDA id : id > 0)

MaxLockTraffic == 1     \* requests and state updates sent while the locks are watched

LockingCalls == {"add_connector", "add_host", "get_host", "add_observer", "get_display_data"}

\* An add_observer that looks at the host table while it holds the
\* observer list.
add_observer_locks_hosts_inside == <<"observers", "hosts">>

\* HostManager::add_observer: self.observers.lock()
add_observer_locks == <<"observers">>

\* The locks a call of the orchestrator takes, in the order it takes them.
LocksOf(call) ==
    CASE call = "add_connector" -> <<"connectors">>
      [] call \in {"add_host", "get_host", "get_display_data"} -> <<"hosts">>
      [] call = "add_observer" -> add_observer_locks

At(call, k) == call \o ":" \o ToString(k)

InCall == \E call \in LockingCalls : \E k \in 0..Len(LocksOf(call)) : orch_state = At(call, k)

OrchHolds(lock) ==
    \E call \in LockingCalls : \E k \in 1..Len(LocksOf(call)) :
        /\ orch_state = At(call, k)
        /\ \E i \in 1..k : LocksOf(call)[i] = lock

\* The ConnectionManager worker holds the connector table from the lookup
\* of the connector to the return of the handler; the HostManager worker
\* takes the host table and, holding it, the observer list.
WorkerHolds(lock) ==
    CASE lock = "connectors" -> cm_state = "serving"
      [] lock = "hosts" -> hm_state \in {"applying", "notifying"}
      [] lock = "observers" -> hm_state \in {"notifying", "exiting"}

LockFree(lock) == ~OrchHolds(lock) /\ ~WorkerHolds(lock)

\* A thread that panicked with the guard alive poisoned the lock.
Poisoned(lock) ==
    CASE lock = "connectors" -> cm_state = "panicked"
      [] lock = "hosts" -> hm_state = "panicked" \/ orch_state = "panicked_in_get_host"
      [] lock = "observers" -> hm_state = "panicked_at_exit"

\* The orchestrator enters one of the calls.
OrchCall ==
    /\ orch_state = "running"
    /\ \E call \in LockingCalls :
          /\ call = "add_observer" => Len(observers) < MaxObservers
          /\ orch_state' = At(call, 0)
    /\ UNCHANGED <<cm_vars, hm_vars, mm_vars, ch_vars, last_applied, next_rid,
                   last_served, disp_vars, published>>

\* Mutex::lock().unwrap() of the orchestrator: blocks while the lock is held.
OrchLock ==
    /\ \E call \in LockingCalls : \E k \in 0..(Len(LocksOf(call)) - 1) :
          /\ orch_state = At(call, k)
          /\ LockFree(LocksOf(call)[k + 1])
          /\ orch_state' = IF Poisoned(LocksOf(call)[k + 1]) THEN "panicked"
                           ELSE At(call, k + 1)
    /\ UNCHANGED <<cm_vars, hm_vars, mm_vars, ch_vars, last_applied, next_rid,
                   last_served, disp_vars, published>>

\* The call does its work under its locks and returns, dropping the guards.
OrchReturn ==
    /\ \E call \in LockingCalls :
          /\ orch_state = At(call, Len(LocksOf(call)))
          /\ connectors' = IF call = "add_connector"
                           THEN [connectors EXCEPT !["h1"]["ssh"] = insert_connector(@, Connector(1))]
                           ELSE connectors
          /\ hosts' = IF call = "add_host"
                      THEN [hosts EXCEPT !["h1"] = HostCollection_add(@, "Pending").entry]
                      ELSE hosts
          /\ observers' = IF call = "add_observer"
                          THEN Append(observers, [open |-> TRUE, received |-> << >>])
                          ELSE observers
          /\ orch_state' = IF call = "get_host" /\ hosts["h1"] = None
                           THEN "panicked_in_get_host" ELSE "running"
    /\ UNCHANGED <<req_queue, cm_state, upd_queue, hm_state, mm_vars, ch_vars, last_applied,
                   next_rid, last_served, disp_vars, published>>

\* A client sends a one-message command, for the connector or for none.
SendCommand ==
    /\ next_rid < MaxLockTraffic
    /\ \E spec \in {None, Some("ssh")} :
          req_queue' = Send(req_queue,
                            <<ConnectorRequest(next_rid + 1, spec, "client", "h1", <<"m1">>, "Command",
                                  Handler("probe", << >>, 0, DataPoint_empty, Origin("client", {})))>>,
                            cm_state)
    /\ next_rid' = next_rid + 1
    /\ UNCHANGED <<connectors, cm_state, hm_vars, mm_vars, ch_vars, orch_state,
                   last_applied, last_served, disp_vars, published>>

\* A holder of a state update sender sends a point of monitor B of host h1,
\* or the exit token.
SendPoint ==
    /\ BagCardinality(published) < MaxLockTraffic
    /\ \E message \in {StateUpdateMessage("h1", "B", Some(DataPoint_new(<<"B">>, "Normal")), None),
                        StateUpdateMessage_exit_token} :
          /\ upd_queue' = Send(upd_queue, <<message>>, hm_state)
          /\ published' = Publish(<<message>>)
    /\ UNCHANGED <<cm_vars, hosts, hm_state, observers, mm_vars, ch_vars, orch_state,
                   last_applied, next_rid, last_served, disp_vars>>

NeedsConnector(request) == request.request_type # "Exit" /\ IsSome(request.connector_spec)

\* connectors.lock().unwrap() of the ConnectionManager worker
CMLock ==
    /\ cm_state = "running"
    /\ req_queue # << >>
    /\ NeedsConnector(Head(req_queue))
    /\ LockFree("connectors")
    /\ cm_state' = "serving"
    /\ UNCHANGED <<connectors, req_queue, hm_vars, mm_vars, ch_vars, orch_state, last_applied,
                   next_rid, last_served, disp_vars, published>>

\* The rest of the iteration, under the lock.
CMServeLocked == cm_state = "serving" /\ ServeNextRequest

\* An iteration that takes no lock: the exit token and the requests with no
\* connector.
CMServeUnlocked ==
    /\ cm_state = "running"
    /\ req_queue # << >>
    /\ ~NeedsConnector(Head(req_queue))
    /\ ServeNextRequest

\* hosts.lock().unwrap() of the HostManager worker
HMLockHosts ==
    /\ hm_state = "running"
    /\ upd_queue # << >>
    /\ ~Head(upd_queue).exit_thread
    /\ LockFree("hosts")
    /\ hm_state' = IF Poisoned("hosts") THEN "panicked" ELSE "applying"
    /\ UNCHANGED <<cm_vars, hosts, upd_queue, observers, mm_vars, ch_vars, orch_state,
                   last_applied, next_rid, last_served, disp_vars, published>>

\* observers.lock().unwrap() of the HostManager worker: with the host table
\* held, or alone for the exit token.
HMLockObservers ==
    /\ upd_queue # << >>
    /\ LockFree("observers")
    /\ \/ /\ hm_state = "applying"
          /\ hosts[Head(upd_queue).host_name] # None
          /\ hm_state' = "notifying"
       \/ /\ hm_state = "running"
          /\ Head(upd_queue).exit_thread
          /\ hm_state' = "exiting"
    /\ UNCHANGED <<cm_vars, hosts, upd_queue, observers, mm_vars, ch_vars, orch_state,
                   last_applied, next_rid, last_served, disp_vars, published>>

\* The rest of the iteration: the sends to the observers, or the panic on an
\* unknown host with the host table held.
HMApplyLocked ==
    /\ \/ hm_state \in {"notifying", "exiting"}
       \/ hm_state = "applying" /\ upd_queue # << >> /\ hosts[Head(upd_queue).host_name] = None
    /\ ApplyNextUpdate

NextLock ==
    \/ OrchCall \/ OrchLock \/ OrchReturn \/ SendCommand \/ SendPoint
    \/ CMLock \/ CMServeLocked \/ CMServeUnlocked
    \/ HMLockHosts \/ HMLockObservers \/ HMApplyLocked
SpecLock == Init /\ [][NextLock]_vars

\* Every thread that can take a step keeps running, and a thread waiting
\* for a lock gets it if the lock is free again and again.
FairLock ==
    /\ SpecLock
    /\ SF_vars(OrchLock) /\ WF_vars(OrchReturn)
    /\ SF_vars(CMLock) /\ WF_vars(CMServeLocked \/ CMServeUnlocked)
    /\ SF_vars(HMLockHosts) /\ SF_vars(HMLockObservers) /\ WF_vars(HMApplyLocked)

CMInStep == cm_state = "serving" \/ (cm_state = "running" /\ req_queue # << >>)
HMInStep == hm_state \in {"applying", "notifying", "exiting"}
               \/ (hm_state = "running" /\ upd_queue # << >>)

\* C37: the system never deadlocks on its locks: every call of the
\* orchestrator that takes a lock (add_connector, add_host, get_host,
\* add_observer, get_display_data) eventually returns, and every step of
\* the two workers eventually completes.
C37_NoDeadlock ==
    /\ InCall ~> ~InCall
    /\ CMInStep ~> ~CMInStep
    /\ HMInStep ~> ~HMInStep

\* The three threads each hold a lock, and the HostManager worker, holding
\* the host table, waits for the observer list the orchestrator holds.
C37_Witness ==
    /\ cm_state = "serving"
    /\ hm_state = "applying"
    /\ hosts["h1"] # None
    /\ orch_state = At("add_observer", 1)

(***************************************************************************)
(* C38                                                                     *)
(***************************************************************************)

\* The orchestrator makes a refresh call on the known host h1 that finds no
\* base monitor to refresh: the call creates no request.
EmptyRefresh ==
    /\ orch_state = "running"
    /\ ~get_host_panics("h1")
    /\ calls' = calls + 1
    /\ IsSome(dispatched')
    /\ Unwrap(dispatched').op \in {"refresh_monitors_of_category", "refresh_monitors_by_id",
                                    "refresh_host_monitors"}
    /\ Unwrap(dispatched').sent = << >>

\* C38: a refresh_monitors_of_category, refresh_monitors_by_id or
\* refresh_host_monitors call whose filter matches no base monitor completes
\* without aborting, returns an empty id list, sends no request and leaves
\* the invocation id counter unchanged.
C38_EmptyRefreshCompletes ==
    [][EmptyRefresh =>
          /\ orch_state' = "running"
          /\ Unwrap(dispatched').returned = << >>
          /\ req_queue' = req_queue
          /\ mm_counter' = mm_counter]_vars

(***************************************************************************)
(* C39, C40: the file flows (SpecFile)                                     *)
(***************************************************************************)

\* The request served last belongs to a file flow.
FileFlowServed ==
    /\ IsSome(last_served)
    /\ Unwrap(last_served).request.response_handler.kind \in {"download", "upload", "editor"}

\* C39: every CommandResult published by a dispatched file flow
\* (download_file, save_and_upload_file, the Download and the chained Upload
\* of the external text-editor flow) carries a positive invocation id, on
\* success and on failure alike.
C39_FileResultsCarryInvocationId ==
    FileFlowServed =>
        \A i \in 1..Len(Unwrap(last_served).effects) :
            LET upds == Unwrap(last_served).effects[i].upds IN
            \A j \in 1..Len(upds) :
                IsSome(upds[j].command_result) =>
                    Unwrap(upds[j].command_result).invocation_id > 0

\* C40: the download, upload and external-editor handlers complete for any
\* response vector the ConnectionManager worker hands them, the empty vector
\* of a request with no connector spec included: the worker goes on running
\* and the handler's effect is on record.
C40_FileHandlersTakeAnyResponses ==
    (FileFlowServed /\ Unwrap(last_served).handler_calls # << >> /\ ReceiverAlive(hm_state)) =>
        /\ cm_state = "running"
        /\ Unwrap(last_served).effects # << >>

====
